---- MODULE Spec2Model ----
(***************************************************************************)
(* A model of the Takaro MCP server: the HTTP transport (POST /mcp), the   *)
(* protocol dispatcher MCPHandler, the SessionManager, the ToolRegistry    *)
(* and DynamicTool.execute, as a state machine.                            *)
(*                                                                         *)
(* JavaScript values are encoded as follows.  A string-typed slot that may *)
(* be undefined (a header, body.method, params.name) holds UNDEF for       *)
(* undefined.  A JSON-RPC id is a record [kind, num, str].  A text (an     *)
(* error message, a tool result's text) is a sequence of string parts, the *)
(* pieces a template literal or a += concatenates, so that "includes" is a *)
(* test on the parts.                                                      *)
(***************************************************************************)
EXTENDS Integers, Sequences, FiniteSets, TLC

VARIABLES
    phase,          \* position of the startup IIFE: starting / authenticated / toolsReady / listening / exited
    config,         \* process.env: "ok", "noCredentials" or "noDomain"
    variant,        \* which DynamicTool class the deployment is built with: "formatted" or "raw"
    client,         \* the module-level `client` of client.ts: unset / unauthenticated / authenticated
    loginAttempts,  \* client.login() calls made so far
    tools,          \* ToolRegistry.tools: the Map's entries in insertion order
    sessions,       \* SessionManager.sessions: session id -> SessionData
    uuids,          \* number of ids randomUUID() has produced
    issued,         \* session ids a client has received in an Mcp-Session-Id header
    exchange,       \* the POST /mcp request being answered and its response, or NoExchange
    loaded,         \* how initializeTools ended: pending / loadFailed / generateFailed / registered
    registry,       \* a ToolRegistry under a sequence of register and clear calls
    generation,     \* an API description and what generateSearchTools made of it
    invocation,     \* a call of a function built by createApiCallFunction
    resolution,     \* a schema document and what SchemaResolver made of it
    naming,         \* an operation id and the method name operationIdToMethod gave it
    streams,        \* the SSE connections GET /mcp has opened and not yet seen closed
    login           \* concurrent getClient() calls: the module-level client and each caller's position

serverVars ==
    <<phase, config, variant, client, loginAttempts, tools, sessions, uuids, issued, exchange, loaded>>

\* the state of the components that are exercised on their own
unitVars == <<registry, generation, invocation, resolution, naming, streams, login>>

vars == <<serverVars, unitVars>>

\* a component that is not exercised
Idle == [idle |-> TRUE]

-----------------------------------------------------------------------------
(* Bounds of the model *)

MaxSessions == 2
MaxTools == 2
MaxPaths == 2
MaxCalls == 8
MaxStreams == 2

(* Program constants *)

MAX_RETRIES == 5
OriginRejected == -32000
MethodNotFound == -32601
InvalidParams == -32602
InternalError == -32603
StatusOk == 200
StatusForbidden == 403
StatusBadRequest == 400

-----------------------------------------------------------------------------
(* JavaScript values *)

UNDEF == "<undefined>"

\* `${v}` in a template literal
Str(v) == IF v = UNDEF THEN "undefined" ELSE v

\* truthiness of a string-or-undefined value
Truthy(v) == v # UNDEF /\ v # ""

IdUndefined == [kind |-> "undefined", num |-> 0, str |-> ""]
IdNull == [kind |-> "null", num |-> 0, str |-> ""]
IdNum(n) == [kind |-> "number", num |-> n, str |-> ""]
IdStr(s) == [kind |-> "string", num |-> 0, str |-> s]

\* truthiness of a JSON-RPC id
IdTruthy(id) ==
    \/ id.kind = "number" /\ id.num # 0
    \/ id.kind = "string" /\ id.str # ""

\* `req.body.id || null`
OrNull(id) == IF IdTruthy(id) THEN id ELSE IdNull

\* message.includes(part), on a text given by its parts
Includes(text, part) == \E i \in 1..Len(text) : text[i] = part

MkError(name, message, response) ==
    [name |-> name, message |-> message, response |-> response]

NoError == MkError("none", <<>>, "noResponse")

-----------------------------------------------------------------------------
(* SessionManager *)

RandomUUID(n) == "uuid-" \o ToString(n)

SessionData == [created |-> "Date.now()"]

\* a create that hands out the id without storing the session
SessionCreateNotStored(store, n) ==
    [sessionId |-> RandomUUID(n + 1), store |-> store, uuids |-> n + 1]

SessionCreate(store, n) ==
    LET sessionId == RandomUUID(n + 1)
    IN  [sessionId |-> sessionId,
         store |-> [s \in DOMAIN store \cup {sessionId} |->
                        IF s = sessionId THEN SessionData ELSE store[s]],
         uuids |-> n + 1]

\* a store that vouches for every id that is given
SessionHasAnyGiven(store, sessionId) == sessionId # UNDEF

SessionHas(store, sessionId) == sessionId \in DOMAIN store

\* a getOrCreate that opens the new session under the id the client supplied
GetOrCreateAdopting(store, n, sessionId) ==
    IF Truthy(sessionId) /\ SessionHas(store, sessionId)
    THEN [sessionId |-> sessionId, isNew |-> FALSE, store |-> store, uuids |-> n]
    ELSE IF Truthy(sessionId)
    THEN [sessionId |-> sessionId, isNew |-> TRUE,
          store |-> [s \in DOMAIN store \cup {sessionId} |->
                        IF s = sessionId THEN SessionData ELSE store[s]],
          uuids |-> n + 1]
    ELSE LET c == SessionCreate(store, n)
         IN  [sessionId |-> c.sessionId, isNew |-> TRUE, store |-> c.store, uuids |-> c.uuids]

GetOrCreate(store, n, sessionId) ==
    IF Truthy(sessionId) /\ SessionHas(store, sessionId)
    THEN [sessionId |-> sessionId, isNew |-> FALSE, store |-> store, uuids |-> n]
    ELSE LET c == SessionCreate(store, n)
         IN  [sessionId |-> c.sessionId, isNew |-> TRUE, store |-> c.store, uuids |-> c.uuids]

-----------------------------------------------------------------------------
(* ToolRegistry *)

NoTool == [undefined |-> TRUE]

RegistryIndex(reg, name) == {i \in 1..Len(reg) : reg[i].metadata.name = name}

RegistryHas(reg, name) == RegistryIndex(reg, name) # {}

\* a register that adds an entry whether or not the name is taken
RegisterAppending(reg, tool) == Append(reg, tool)

\* Map.set: an existing key keeps its place in the iteration order
Register(reg, tool) ==
    IF RegistryHas(reg, tool.metadata.name)
    THEN [i \in 1..Len(reg) |->
            IF reg[i].metadata.name = tool.metadata.name THEN tool ELSE reg[i]]
    ELSE Append(reg, tool)

\* a lookup that falls back to the first tool
RegistryGetOrFirst(reg, name) ==
    IF RegistryHas(reg, name)
    THEN reg[CHOOSE i \in RegistryIndex(reg, name) : TRUE]
    ELSE IF reg # <<>> THEN reg[1] ELSE NoTool

RegistryGet(reg, name) ==
    IF RegistryHas(reg, name)
    THEN reg[CHOOSE i \in RegistryIndex(reg, name) : TRUE]
    ELSE NoTool

RegistryList(reg) == reg

\* size(): Map.size
RegistrySize(reg) == Len(reg)

\* clear(): Map.clear
RegistryClear(reg) == <<>>

\* a projection that passes the invocation binding on
ToMCPFormatWithBinding(reg) ==
    [i \in 1..Len(RegistryList(reg)) |->
        [name |-> RegistryList(reg)[i].metadata.name,
         description |-> RegistryList(reg)[i].metadata.description,
         inputSchema |-> RegistryList(reg)[i].inputSchema,
         apiCallFn |-> RegistryList(reg)[i].apiCallFn]]

ToMCPFormat(reg) ==
    [i \in 1..Len(RegistryList(reg)) |->
        [name |-> RegistryList(reg)[i].metadata.name,
         description |-> RegistryList(reg)[i].metadata.description,
         inputSchema |-> RegistryList(reg)[i].inputSchema]]

-----------------------------------------------------------------------------
(* The tools the generator hands to initializeTools.  The API description  *)
(* is an input of the server: these are the tool infos of three search    *)
(* paths, two of which ("/module/search", "/Module/search") give the same *)
(* tool name.                                                              *)

ArgFields == {"filters"}

ToolInfo(name, description, requiredDefined, required, path, entityType, operationId) ==
    [metadata |-> [name |-> name, description |-> description],
     inputSchema |-> [type |-> "object",
                      requiredDefined |-> requiredDefined,
                      required |-> required],
     operationId |-> operationId,
     path |-> path,
     method |-> "post",
     entityType |-> entityType,
     apiCallFn |-> [operationId |-> operationId, path |-> path, method |-> "post"]]

ModuleInfo ==
    ToolInfo("searchModule", "Search modules", TRUE, <<"filters">>,
             "/module/search", "module", "ModuleController.search")

ModuleInfoAlt ==
    ToolInfo("searchModule", "Search Modules (alt)", FALSE, <<>>,
             "/Module/search", "Module", "ModuleAltController.search")

PlayerInfo ==
    ToolInfo("searchPlayer", "Search players", FALSE, <<>>,
             "/player/search", "player", "PlayerController.search")

GeneratedToolInfos == {ModuleInfo, ModuleInfoAlt, PlayerInfo}

\* every tool name a request may carry: the generated ones and one that is never generated
ToolNames == {"searchModule", "searchPlayer", "unknownTool"}

\* name.toLowerCase().startsWith('search'), over the names of the model
IsSearchOperation(tool) == tool.metadata.name \in {"searchModule", "searchPlayer"}

\* createDynamicTool: the formatter variant keeps the formatter and the entity type
CreateDynamicTool(toolInfo, class) ==
    IF class = "formatted"
    THEN [class |-> "formatted",
          metadata |-> toolInfo.metadata,
          inputSchema |-> toolInfo.inputSchema,
          apiCallFn |-> toolInfo.apiCallFn,
          formatter |-> "ResponseFormatter",
          entityType |-> toolInfo.entityType]
    ELSE [class |-> "raw",
          metadata |-> toolInfo.metadata,
          inputSchema |-> toolInfo.inputSchema,
          apiCallFn |-> toolInfo.apiCallFn]

-----------------------------------------------------------------------------
(* The remote API as seen through axios.request: it resolves with a       *)
(* response or rejects with an error that may carry the remote body.      *)

\* response.data.data: an array of entities, absent, or something that is not an array
ResponseBodies == {"page", "none", "malformed"}

\* error.response.data.errors of a rejection:
\*   noResponse      no error.response at all (network failure)
\*   noErrors        a body without an errors key
\*   errorsNull      errors: null
\*   errorsList      errors: [{message: ...}]
\*   errorsNullEntry errors: [null]
\*   errorsObject    errors: {field: ...}, an object that is no array
ErrorBodies == {"noResponse", "noErrors", "errorsNull", "errorsList",
                "errorsNullEntry", "errorsObject"}

ErrorMessages == {<<>>,
                  <<"Request failed with status code 400">>,
                  <<"Request failed: ", "Invalid parameters">>}

HttpOutcomes ==
    [ok : {TRUE}, body : ResponseBodies, error : {NoError}]
    \cup {[ok |-> FALSE, body |-> "none", error |-> MkError("AxiosError", m, b)] :
            m \in ErrorMessages, b \in ErrorBodies}

\* how a call ends: it returns a value or throws an error
Returned(result) == [threw |-> FALSE, error |-> NoError, result |-> result]
NoResult == [kind |-> "none"]

Thrown(error) == [threw |-> TRUE, error |-> error, result |-> NoResult]

\* the function createApiCallFunction returns, for a path without placeholders:
\* the input's fields go to the body (post) and the client's answer comes back as it is
ApiCallFn(binding, input, http) ==
    LET requestData == IF input.defined THEN input.keys ELSE {}
        axiosConfig == [method |-> binding.method,
                        url |-> binding.path,
                        params |-> IF binding.method \in {"get", "delete"} THEN requestData ELSE {},
                        data |-> IF binding.method \in {"get", "delete"} THEN {} ELSE requestData]
    IN  IF http.ok
        THEN [threw |-> FALSE, error |-> NoError, response |-> http.body, request |-> axiosConfig]
        ELSE [threw |-> TRUE, error |-> http.error, response |-> "none", request |-> axiosConfig]

-----------------------------------------------------------------------------
(* ResponseFormatter *)

TextResult(text) == [kind |-> "toolResult", content |-> <<[type |-> "text", text |-> text]>>]

FormatPaginatedList(body, entityType) ==
    CASE body = "page" ->
            Returned(TextResult(<<"Found ", "1", " ", entityType, "\n\n", "1. ", "entity", "\n">>))
      [] body = "none" ->
            Returned(TextResult(<<"Found ", "0", " ", entityType, "\n\n",
                                  "No ", entityType, " found matching your criteria.">>))
      [] OTHER -> Thrown(MkError("TypeError", <<"items.forEach is not a function">>, "noResponse"))

FormatSingleEntity(body, entityType) ==
    IF body = "none"
    THEN Thrown(MkError("TypeError", <<"Cannot read properties of undefined (reading 'name')">>,
                        "noResponse"))
    ELSE Returned(TextResult(<<"entity", "\n">>))

FormatErrorHeader == "An error occurred while processing your request.\n\n"

FormatError(error) ==
    CASE error.response = "errorsList" ->
            Returned(TextResult(<<FormatErrorHeader, "Errors:\n", "- ", "remote error", "\n">>))
      [] error.response = "errorsNullEntry" ->
            Thrown(MkError("TypeError", <<"Cannot read properties of null (reading 'message')">>,
                           "noResponse"))
      [] error.response = "errorsObject" ->
            Thrown(MkError("TypeError", <<"errors.forEach is not a function">>, "noResponse"))
      [] OTHER ->
            IF error.message # <<>>
            THEN Returned(TextResult(<<FormatErrorHeader, "Error: ">> \o error.message))
            ELSE Returned(TextResult(<<FormatErrorHeader, "Unknown error occurred.">>))

-----------------------------------------------------------------------------
(* DynamicTool.execute.  The input is params.arguments: undefined, or an  *)
(* object given by its keys.                                               *)

InputUndefined == [defined |-> FALSE, keys |-> {}]
InputObject(keys) == [defined |-> TRUE, keys |-> keys]
Inputs == {InputUndefined} \cup {InputObject(k) : k \in SUBSET ArgFields}

\* the required fields that `requiredField in input` does not find, by position
MissingRequired(schema, input) ==
    {i \in 1..Len(schema.required) : ~input.defined \/ schema.required[i] \notin input.keys}

\* an execute without the validation loop
ValidationSkipped(schema, input) == NoError

\* the validation loop at the head of execute: the error its first failing step
\* throws, or NoError.  `in` applied to undefined is a TypeError.
ValidationError(schema, input) ==
    IF ~schema.requiredDefined \/ MissingRequired(schema, input) = {}
    THEN NoError
    ELSE LET i == CHOOSE j \in MissingRequired(schema, input) :
                    \A k \in MissingRequired(schema, input) : j <= k
         IN  IF ~input.defined
             THEN MkError("TypeError",
                          <<"Cannot use 'in' operator to search for '", schema.required[i],
                            "' in undefined">>, "noResponse")
             ELSE MkError("Error", <<"Missing required field: ", schema.required[i]>>,
                          "noResponse")

\* what execute hands back, with what it did on the way
ExecOutcome(r, apiCalled, validation, http) ==
    [threw |-> r.threw, error |-> r.error, result |-> r.result,
     apiCalled |-> apiCalled, validation |-> validation, http |-> http]

\* no answer of the remote API: the call was never made
NoHttp == [ok |-> FALSE, body |-> "none", error |-> NoError]

\* formatter variant: error?.response?.data?.errors !== undefined
IsTakaroErrorFormatted(error) ==
    error.response \in {"errorsNull", "errorsList", "errorsNullEntry", "errorsObject"}

\* formatter variant: the catch block of execute
CatchFormatted(tool, error) ==
    IF IsTakaroErrorFormatted(error)
    THEN FormatError(error)
    ELSE Returned(TextResult(<<"Failed to execute ", tool.metadata.name, ": ">> \o error.message))

\* formatter variant: the try block of execute after validation, for one answer of the remote API
TryFormatted(tool, input, http) ==
    LET call == ApiCallFn(tool.apiCallFn, input, http)
        shaped == IF IsSearchOperation(tool)
                  THEN FormatPaginatedList(call.response, tool.entityType)
                  ELSE FormatSingleEntity(call.response, tool.entityType)
    IN  IF call.threw THEN CatchFormatted(tool, call.error)
        ELSE IF shaped.threw THEN CatchFormatted(tool, shaped.error)
        ELSE shaped

ExecuteFormatted(tool, input) ==
    LET v == ValidationError(tool.inputSchema, input)
    IN  IF v # NoError
        THEN {ExecOutcome(CatchFormatted(tool, v), FALSE, v, NoHttp)}
        ELSE {ExecOutcome(TryFormatted(tool, input, http), TRUE, v, http) : http \in HttpOutcomes}

\* raw variant: error?.response?.data !== undefined
IsTakaroErrorRaw(error) == error.response # "noResponse"

\* raw variant: the catch block of execute
CatchRaw(tool, error) ==
    Returned(TextResult(<<"{error: true, message: ">> \o error.message
                        \o (IF IsTakaroErrorRaw(error)
                            THEN <<", status, statusText, details: ", error.response>>
                            ELSE <<>>)
                        \o <<"}">>))

\* raw variant: the try block after validation.  Without data.data the whole axios
\* response is serialised, which JSON.stringify may refuse (a circular structure).
TryRaw(tool, input, http) ==
    LET call == ApiCallFn(tool.apiCallFn, input, http)
    IN  IF call.threw THEN {CatchRaw(tool, call.error)}
        ELSE IF call.response # "none"
             THEN {Returned(TextResult(<<"json(response.data): ", call.response>>))}
             ELSE {Returned(TextResult(<<"json(response)">>)),
                   CatchRaw(tool, MkError("TypeError",
                                          <<"Converting circular structure to JSON">>,
                                          "noResponse"))}

ExecuteRaw(tool, input) ==
    LET v == ValidationError(tool.inputSchema, input)
    IN  IF v # NoError
        THEN {ExecOutcome(CatchRaw(tool, v), FALSE, v, NoHttp)}
        ELSE UNION {{ExecOutcome(r, TRUE, v, http) : r \in TryRaw(tool, input, http)} :
                        http \in HttpOutcomes}

\* tool.execute(args, context): every way it can end
Execute(tool, input) ==
    IF tool.class = "formatted" THEN ExecuteFormatted(tool, input) ELSE ExecuteRaw(tool, input)

-----------------------------------------------------------------------------
(* getClient, taken as one step: the cached handle, or up to MAX_RETRIES   *)
(* login attempts.                                                         *)

LoginErrors ==
    {MkError("AxiosError", <<"Request failed with status code 401">>, "noErrors"),
     MkError("Error", <<"Invalid domain ID or insufficient permissions for domain: ", "domainId">>,
             "noResponse"),
     MkError("Error", <<"Domain configuration error: Unable to set domain to ", "domainId">>,
             "noResponse")}

GetClientOutcome(threw, error, handle, attempts) ==
    [threw |-> threw, error |-> error, client |-> handle, attempts |-> attempts]

GetClient ==
    IF client # "unset"
    THEN {GetClientOutcome(FALSE, NoError, client, 0)}
    ELSE IF config = "noCredentials"
    THEN {GetClientOutcome(TRUE,
            MkError("Error", <<"TAKARO_USERNAME and TAKARO_PASSWORD environment variables must be set">>,
                    "noResponse"), "unset", 0)}
    ELSE IF config = "noDomain"
    THEN {GetClientOutcome(TRUE,
            MkError("Error", <<"TAKARO_DOMAIN_ID environment variable must be set">>,
                    "noResponse"), "unset", 0)}
    ELSE {GetClientOutcome(FALSE, NoError, "authenticated", k) : k \in 1..MAX_RETRIES}
         \cup {GetClientOutcome(TRUE, e, "unauthenticated", MAX_RETRIES) : e \in LoginErrors}

-----------------------------------------------------------------------------
(* MCPHandler, the protocol dispatcher *)

NoRpcError == [code |-> 0, message |-> <<>>, hasData |-> FALSE, data |-> <<>>]

ResultResponse(result, id) ==
    [jsonrpc |-> "2.0", has |-> "result", result |-> result, error |-> NoRpcError, id |-> id]

ErrorResponse(code, message, hasData, data, id) ==
    [jsonrpc |-> "2.0", has |-> "error", result |-> NoResult,
     error |-> [code |-> code, message |-> message, hasData |-> hasData, data |-> data],
     id |-> id]

InitializeResult ==
    [kind |-> "initialize",
     protocolVersion |-> "2024-11-05",
     capabilities |-> [tools |-> "{}"],
     serverInfo |-> [name |-> "takaro-mcp", version |-> "1.0.0"]]

ParamsUndefined == [defined |-> FALSE, name |-> UNDEF, arguments |-> InputUndefined]
ParamsObject(name, arguments) == [defined |-> TRUE, name |-> name, arguments |-> arguments]

\* what handling one request did: the response, the session store and the client
\* handle it leaves, the header it set, and which calls it made
Handled(response, store, n, handle, attempts, header, clientAcquired, executed, e) ==
    [response |-> response, store |-> store, uuids |-> n, client |-> handle,
     attempts |-> attempts, header |-> header, clientAcquired |-> clientAcquired,
     executed |-> executed, apiCalled |-> e.apiCalled, validation |-> e.validation,
     http |-> e.http, thrown |-> e.error]

\* execute was not called
NotExecuted == ExecOutcome(Returned(NoResult), FALSE, NoError, NoHttp)

\* a response of the dispatcher that touched nothing
Answered(response) ==
    Handled(response, sessions, uuids, client, 0, UNDEF, FALSE, UNDEF, NotExecuted)

HandleInitialize(sessionId, requestId, hasSetHeader) ==
    LET sessionResult == GetOrCreate(sessions, uuids, sessionId)
    IN  Handled(ResultResponse(InitializeResult, requestId),
                sessionResult.store, sessionResult.uuids, client, 0,
                IF sessionResult.isNew /\ hasSetHeader THEN sessionResult.sessionId ELSE UNDEF,
                FALSE, UNDEF, NotExecuted)

HandleToolsList(requestId) ==
    Answered(ResultResponse([kind |-> "toolsList", tools |-> ToMCPFormat(tools)], requestId))

\* a catch block that passes the exception's message on as data
ToolCallFailureLeaking(error, requestId) ==
    IF Includes(error.message, "Invalid parameters")
    THEN ErrorResponse(InvalidParams, <<"Invalid parameters">>, TRUE, error.message, requestId)
    ELSE ErrorResponse(InternalError, <<"Failed to execute tool">>, TRUE, error.message, requestId)

\* the catch block of handleToolCall
ToolCallFailure(error, requestId) ==
    IF Includes(error.message, "Invalid parameters")
    THEN ErrorResponse(InvalidParams, <<"Invalid parameters">>, TRUE, error.message, requestId)
    ELSE ErrorResponse(InternalError, <<"Failed to execute tool">>, TRUE,
                       <<"An error occurred during tool execution">>, requestId)

\* the try block of handleToolCall for one outcome g of getClient()
ToolCallTry(tool, args, requestId, g) ==
    IF g.threw
    THEN {Handled(ToolCallFailure(g.error, requestId), sessions, uuids, g.client, g.attempts,
                  UNDEF, TRUE, UNDEF, ExecOutcome(Thrown(g.error), FALSE, NoError, NoHttp))}
    ELSE {Handled(IF e.threw THEN ToolCallFailure(e.error, requestId)
                             ELSE ResultResponse(e.result, requestId),
                  sessions, uuids, g.client, g.attempts,
                  UNDEF, TRUE, tool.metadata.name, e) :
            e \in Execute(tool, args)}

\* a handleToolCall that looks the tool up before it looks at the session
HandleToolCallToolFirst(params, sessionId, requestId) ==
    LET name == IF params.defined THEN params.name ELSE UNDEF
        args == IF params.defined THEN params.arguments ELSE InputUndefined
        tool == RegistryGet(tools, name)
    IN  IF tool = NoTool
        THEN {Answered(ErrorResponse(MethodNotFound, <<"Unknown tool: ", Str(name)>>,
                                     FALSE, <<>>, requestId))}
        ELSE IF ~Truthy(sessionId)
        THEN {Answered(ErrorResponse(InvalidParams, <<"Session ID required for tool execution">>,
                                     FALSE, <<>>, requestId))}
        ELSE IF ~SessionHas(sessions, sessionId)
        THEN {Answered(ErrorResponse(InvalidParams, <<"Invalid or expired session">>,
                                     FALSE, <<>>, requestId))}
        ELSE UNION {ToolCallTry(tool, args, requestId, g) : g \in GetClient}

\* handleToolCall: session id present, session id known, tool registered, then the call
HandleToolCall(params, sessionId, requestId) ==
    LET name == IF params.defined THEN params.name ELSE UNDEF
        args == IF params.defined THEN params.arguments ELSE InputUndefined
        tool == RegistryGet(tools, name)
    IN  IF ~Truthy(sessionId)
        THEN {Answered(ErrorResponse(InvalidParams, <<"Session ID required for tool execution">>,
                                     FALSE, <<>>, requestId))}
        ELSE IF ~SessionHas(sessions, sessionId)
        THEN {Answered(ErrorResponse(InvalidParams, <<"Invalid or expired session">>,
                                     FALSE, <<>>, requestId))}
        ELSE IF tool = NoTool
        THEN {Answered(ErrorResponse(MethodNotFound, <<"Unknown tool: ", Str(name)>>,
                                     FALSE, <<>>, requestId))}
        ELSE UNION {ToolCallTry(tool, args, requestId, g) : g \in GetClient}

\* a dispatcher whose default case falls into initialize
HandleRequestDefaultInitialize(method, params, sessionId, requestId, hasSetHeader) ==
    CASE method = "tools/list" -> {HandleToolsList(requestId)}
      [] method = "tools/call" -> HandleToolCall(params, sessionId, requestId)
      [] OTHER -> {HandleInitialize(sessionId, requestId, hasSetHeader)}

\* handleRequest: every handler returns; none of them throws past its own catch,
\* so the catch of handleRequest (Internal error) has nothing to catch
HandleRequest(method, params, sessionId, requestId, hasSetHeader) ==
    CASE method = "initialize" -> {HandleInitialize(sessionId, requestId, hasSetHeader)}
      [] method = "tools/list" -> {HandleToolsList(requestId)}
      [] method = "tools/call" -> HandleToolCall(params, sessionId, requestId)
      [] OTHER -> {Answered(ErrorResponse(MethodNotFound, <<"Method not found: ", Str(method)>>,
                                          FALSE, <<>>, requestId))}

-----------------------------------------------------------------------------
(* The HTTP transport: POST /mcp *)

AllowedOrigins == {"http://localhost:3000", "http://127.0.0.1:3000",
                   "https://localhost:3000", "https://127.0.0.1:3000"}

\* a check that lets every origin through
IsAllowedOriginAny(origin) == TRUE

IsAllowedOrigin(origin) == origin \in AllowedOrigins

NoExchange == [none |-> TRUE]

\* the request, the HTTP status and body sent, and what the server did for it
Exchanged(req, status, dispatched, h) ==
    [req |-> req, status |-> status, response |-> h.response, header |-> h.header,
     dispatched |-> dispatched, clientAcquired |-> h.clientAcquired,
     executed |-> h.executed, apiCalled |-> h.apiCalled, validation |-> h.validation,
     http |-> h.http, thrown |-> h.thrown]

\* the 403 the transport sends by itself
RejectOrigin(req) ==
    Answered(ErrorResponse(OriginRejected, <<"Forbidden: Invalid origin">>, FALSE, <<>>,
                           OrNull(req.id)))

\* app.post('/mcp'): every way the handler can answer req, as <<exchange, outcome>>
PostHandler(req) ==
    IF Truthy(req.origin) /\ ~IsAllowedOrigin(req.origin)
    THEN {<<Exchanged(req, StatusForbidden, FALSE, RejectOrigin(req)), RejectOrigin(req)>>}
    ELSE {<<Exchanged(req, StatusOk, TRUE, h), h>> :
            h \in HandleRequest(req.method, req.params, req.sessionId, req.id, TRUE)}

-----------------------------------------------------------------------------
(* Requests a client may send *)

Methods == {"initialize", "tools/list", "tools/call", "resources/list", UNDEF}

RequestIds == {IdUndefined, IdNull, IdNum(0), IdNum(7), IdStr(""), IdStr("req-1")}

Origins == {UNDEF, "http://localhost:3000", "http://evil.example"}

\* Mcp-Session-Id: absent, empty, one the server never issued, or one it issued
SessionHeaders == {UNDEF, "", "stale-session"} \cup issued

ParamsSet ==
    {ParamsUndefined}
    \cup {ParamsObject(n, a) : n \in ToolNames \cup {UNDEF}, a \in Inputs}

Requests ==
    [method : Methods, params : ParamsSet, sessionId : SessionHeaders,
     id : RequestIds, origin : Origins]

-----------------------------------------------------------------------------
(* The state machine *)

Init ==
    /\ phase = "starting"
    /\ config \in {"ok", "noCredentials", "noDomain"}
    /\ variant \in {"formatted", "raw"}
    /\ client = "unset"
    /\ loginAttempts = 0
    /\ tools = <<>>
    /\ sessions = <<>>
    /\ uuids = 0
    /\ issued = {}
    /\ exchange = NoExchange
    /\ loaded = "pending"
    /\ registry = Idle
    /\ generation = Idle
    /\ invocation = Idle
    /\ resolution = Idle
    /\ naming = Idle
    /\ streams = Idle
    /\ login = Idle

\* a startup that goes on after a failed getClient()
StartupGetClientUnchecked ==
    /\ phase = "starting"
    /\ \E g \in GetClient :
        /\ client' = g.client
        /\ loginAttempts' = loginAttempts + g.attempts
        /\ phase' = "authenticated"
    /\ UNCHANGED <<config, variant, tools, sessions, uuids, issued, exchange, loaded>>
    /\ UNCHANGED unitVars

\* startup: await getClient(); a failure ends the process
StartupGetClient ==
    /\ phase = "starting"
    /\ \E g \in GetClient :
        /\ client' = g.client
        /\ loginAttempts' = loginAttempts + g.attempts
        /\ phase' = IF g.threw THEN "exited" ELSE "authenticated"
    /\ UNCHANGED <<config, variant, tools, sessions, uuids, issued, exchange, loaded>>
    /\ UNCHANGED unitVars

\* the tool lists generateSearchTools may return: one tool per search path, in
\* the order of the path table
ToolLists ==
    {l \in UNION {[1..k -> GeneratedToolInfos] : k \in 0..MaxTools} :
        \A i, j \in DOMAIN l : i # j => l[i] # l[j]}

RECURSIVE RegisterAll(_, _, _)
RegisterAll(reg, infos, class) ==
    IF infos = <<>>
    THEN reg
    ELSE RegisterAll(Register(reg, CreateDynamicTool(Head(infos), class)), Tail(infos), class)

\* an initializeTools that registers each tool as it is generated, so that a
\* failure leaves the tools generated before it in the registry
InitializeToolsEager ==
    /\ phase = "authenticated"
    /\ \E searchTools \in ToolLists :
            /\ loaded' \in {"loadFailed", "generateFailed", "registered"}
            /\ tools' = RegisterAll(tools, searchTools, variant)
    /\ phase' = "toolsReady"
    /\ UNCHANGED <<config, variant, client, loginAttempts, sessions, uuids, issued, exchange>>
    /\ UNCHANGED unitVars

\* startup: await initializeTools(); getSpec or generateSearchTools may throw, which
\* is caught before the registration loop is entered
InitializeTools ==
    /\ phase = "authenticated"
    /\ \/ /\ loaded' \in {"loadFailed", "generateFailed"}
          /\ tools' = tools
       \/ \E searchTools \in ToolLists :
            /\ loaded' = "registered"
            /\ tools' = RegisterAll(tools, searchTools, variant)
    /\ phase' = "toolsReady"
    /\ UNCHANGED <<config, variant, client, loginAttempts, sessions, uuids, issued, exchange>>
    /\ UNCHANGED unitVars

\* startup: app.listen
Listen ==
    /\ phase = "toolsReady"
    /\ phase' = "listening"
    /\ UNCHANGED <<config, variant, client, loginAttempts, tools, sessions, uuids, issued, exchange, loaded>>
    /\ UNCHANGED unitVars

\* a POST /mcp request is handled and answered
PostMcp ==
    /\ phase = "listening"
    /\ exchange = NoExchange
    /\ \E req \in Requests :
        \E x \in PostHandler(req) :
            /\ x[2].uuids <= MaxSessions
            /\ exchange' = x[1]
            /\ sessions' = x[2].store
            /\ uuids' = x[2].uuids
            /\ client' = x[2].client
            /\ loginAttempts' = loginAttempts + x[2].attempts
    /\ UNCHANGED <<phase, config, variant, tools, issued, loaded>>
    /\ UNCHANGED unitVars

\* the client receives the response, and with it the session id of the header
Deliver ==
    /\ exchange # NoExchange
    /\ issued' = issued \cup (IF exchange.header # UNDEF THEN {exchange.header} ELSE {})
    /\ exchange' = NoExchange
    /\ UNCHANGED <<phase, config, variant, client, loginAttempts, tools, sessions, uuids, loaded>>
    /\ UNCHANGED unitVars

Next ==
    \/ StartupGetClient
    \/ InitializeTools
    \/ Listen
    \/ PostMcp
    \/ Deliver

Spec == Init /\ [][Next]_vars

-----------------------------------------------------------------------------
(* The server's variables while a component is exercised on its own: the    *)
(* process has not been started.                                            *)

ServerOff ==
    /\ phase = "off"
    /\ config = "ok"
    /\ variant = "formatted"
    /\ client = "unset"
    /\ loginAttempts = 0
    /\ tools = <<>>
    /\ sessions = <<>>
    /\ uuids = 0
    /\ issued = {}
    /\ exchange = NoExchange
    /\ loaded = "pending"

-----------------------------------------------------------------------------
(* A ToolRegistry under register and clear calls.  `names` collects the     *)
(* names registered since the last clear(); `last` is the latest call.      *)

\* a tool that does not come from the generator
CustomInfo ==
    ToolInfo("customTool", "A hand-written tool", FALSE, <<>>,
             "/custom", "custom", "CustomController.run")

\* the tools a caller may register: both classes of every tool info
RegistryTools ==
    {CreateDynamicTool(info, class) :
        info \in GeneratedToolInfos \cup {CustomInfo}, class \in {"formatted", "raw"}}

RegistryNames == {tool.metadata.name : tool \in RegistryTools}

RegistryInit ==
    /\ ServerOff
    /\ registry = [tools |-> <<>>, names |-> {}, last |-> [op |-> "new"]]
    /\ generation = Idle
    /\ invocation = Idle
    /\ resolution = Idle
    /\ naming = Idle
    /\ streams = Idle
    /\ login = Idle

\* registry.register(tool)
RegistryRegister ==
    /\ \E tool \in RegistryTools :
        registry' = [tools |-> Register(registry.tools, tool),
                     names |-> registry.names \cup {tool.metadata.name},
                     last |-> [op |-> "register", tool |-> tool,
                               warned |-> RegistryHas(registry.tools, tool.metadata.name)]]
    /\ UNCHANGED <<serverVars, generation, invocation, resolution, naming, streams, login>>

\* registry.clear()
RegistryCleared ==
    /\ registry' = [tools |-> RegistryClear(registry.tools),
                    names |-> {},
                    last |-> [op |-> "clear"]]
    /\ UNCHANGED <<serverVars, generation, invocation, resolution, naming, streams, login>>

RegistryNext ==
    \/ RegistryRegister
    \/ RegistryCleared

RegistrySpec == RegistryInit /\ [][RegistryNext]_vars

-----------------------------------------------------------------------------
(* OpenAPIToolGenerator.generateSearchTools over an API description.  The   *)
(* description is its path table, a sequence of path items in the order of  *)
(* Object.entries, and the schemas under #/components/schemas.  A path is   *)
(* kept as the string and split into its segments by PathSegments.  A JSON  *)
(* Schema `type` that is an array is written as its members joined by ",".  *)

Paths == {"/module/search", "/Module/search", "/player/search",
          "/player/{id}", "/api/player/search", "/search"}

\* path.split('/') without the leading empty piece
PathSegments(path) ==
    CASE path = "/module/search" -> <<"module", "search">>
      [] path = "/Module/search" -> <<"Module", "search">>
      [] path = "/player/search" -> <<"player", "search">>
      [] path = "/player/{id}" -> <<"player", "{id}">>
      [] path = "/api/player/search" -> <<"api", "player", "search">>
      [] path = "/search" -> <<"search">>

\* path.endsWith('/search')
EndsWithSearch(path) ==
    LET segments == PathSegments(path)
    IN  Len(segments) > 0 /\ segments[Len(segments)] = "search"

\* an extraction that takes the segment before "search" at any depth
ExtractEntityTypeAnyDepth(path) ==
    LET segments == PathSegments(path)
    IN  IF Len(segments) >= 2 /\ segments[Len(segments)] = "search"
        THEN segments[Len(segments) - 1]
        ELSE UNDEF

\* extractEntityType: path.match(/^\/([^\/]+)\/search$/), null when there is no match
ExtractEntityType(path) ==
    LET segments == PathSegments(path)
    IN  IF Len(segments) = 2 /\ segments[1] # "" /\ segments[2] = "search"
        THEN segments[1]
        ELSE UNDEF

\* entityType.charAt(0).toUpperCase() + entityType.slice(1)
Capitalize(word) ==
    CASE word = "module" -> "Module"
      [] word = "player" -> "Player"
      [] word = "api" -> "Api"
      [] word = "search" -> "Search"
      [] OTHER -> word

\* generateToolName
GenerateToolName(entityType) == "search" \o Capitalize(entityType)

\* a schema object: $ref (UNDEF when absent) and the sibling keys type, nullable, required
Schema(ref, hasType, type, nullable, requiredDefined, required) ==
    [ref |-> ref, hasType |-> hasType, type |-> type, nullable |-> nullable,
     requiredDefined |-> requiredDefined, required |-> required]

NoSchema == Schema(UNDEF, FALSE, "", FALSE, FALSE, <<>>)

\* spec.components.schemas, by the $ref that points at the entry
Components ==
    [r \in {"#/components/schemas/ModuleSearchInput"} |->
        Schema(UNDEF, TRUE, "object", FALSE, TRUE, <<"filters">>)]

Refs == {"#/components/schemas/ModuleSearchInput", "#/components/schemas/Missing",
         "common.yaml#/SearchInput"}

\* ref.startsWith('#/')
IsLocalRef(ref) == ref \in {"#/components/schemas/ModuleSearchInput", "#/components/schemas/Missing"}

\* resolveRef: an external or a dangling reference throws
ResolveRef(ref) ==
    IF ~IsLocalRef(ref)
    THEN Thrown(MkError("Error", <<"External references not supported: ", ref>>, "noResponse"))
    ELSE IF ref \notin DOMAIN Components
    THEN Thrown(MkError("Error", <<"Invalid reference: ", ref>>, "noResponse"))
    ELSE Returned(Components[ref])

\* resolveSchema: { ...resolved, ...siblings } for a $ref, a clone otherwise
ResolveSchema(schema) ==
    IF schema.ref = UNDEF
    THEN Returned(schema)
    ELSE LET r == ResolveRef(schema.ref)
         IN  IF r.threw
             THEN r
             ELSE Returned(Schema(UNDEF,
                                  schema.hasType \/ r.result.hasType,
                                  IF schema.hasType THEN schema.type ELSE r.result.type,
                                  schema.nullable \/ r.result.nullable,
                                  schema.requiredDefined \/ r.result.requiredDefined,
                                  IF schema.requiredDefined THEN schema.required
                                                            ELSE r.result.required))

\* toMCPSchema: drops nullable and, for a nullable schema with a type, appends 'null'
ToMCPSchema(schema) ==
    [schema EXCEPT !.nullable = FALSE,
                   !.type = IF schema.nullable /\ schema.hasType
                            THEN schema.type \o ",null"
                            ELSE schema.type]

\* pathItem.post: absent, or an operation with its requestBody
\*   body: "none" no requestBody, "noContent" no content, "noJson" no
\*   application/json entry, "noSchema" no schema in it, "schema" a schema
Operation(summary, description, operationId, body, schema) ==
    [summary |-> summary, description |-> description, operationId |-> operationId,
     body |-> body, schema |-> schema]

NoOperation == [undefined |-> TRUE]

PathItem(path, post) == [path |-> path, post |-> post]

\* extractInputSchema: null, or { type: 'object', ...mcpSchema, $schema }
ExtractInputSchema(operation) ==
    IF operation.body # "schema"
    THEN Returned(NoResult)
    ELSE LET r == ResolveSchema(operation.schema)
         IN  IF r.threw
             THEN r
             ELSE LET mcpSchema == ToMCPSchema(r.result)
                  IN  Returned([type |-> IF mcpSchema.hasType THEN mcpSchema.type ELSE "object",
                                requiredDefined |-> mcpSchema.requiredDefined,
                                required |-> mcpSchema.required])

\* a || b || c over strings
FirstTruthy(a, b, c) == IF Truthy(a) THEN a ELSE IF Truthy(b) THEN b ELSE c

\* generateSearchTool: null (skipped), a GeneratedToolInfo, or a thrown error
GenerateSearchTool(path, pathItem) ==
    IF pathItem.post = NoOperation
    THEN Returned(NoResult)
    ELSE IF ExtractEntityType(path) = UNDEF
    THEN Returned(NoResult)
    ELSE LET operation == pathItem.post
             entityType == ExtractEntityType(path)
             inputSchema == ExtractInputSchema(operation)
         IN  IF inputSchema.threw
             THEN inputSchema
             ELSE IF inputSchema.result = NoResult
             THEN Returned(NoResult)
             ELSE Returned(
                    [ToolInfo(GenerateToolName(entityType),
                              FirstTruthy(operation.summary, operation.description,
                                          "Search " \o entityType),
                              inputSchema.result.requiredDefined,
                              inputSchema.result.required,
                              path, entityType,
                              FirstTruthy(operation.operationId, "", ""))
                        EXCEPT !.inputSchema.type = inputSchema.result.type])

RECURSIVE GenerateFromPrepending(_, _)
\* a loop that puts each new tool in front of the list
GenerateFromPrepending(pathTable, made) ==
    IF pathTable = <<>>
    THEN Returned(made)
    ELSE LET item == Head(pathTable)
         IN  IF ~EndsWithSearch(item.path)
             THEN GenerateFromPrepending(Tail(pathTable), made)
             ELSE LET tool == GenerateSearchTool(item.path, item)
                  IN  IF tool.threw
                      THEN tool
                      ELSE IF tool.result = NoResult
                      THEN GenerateFromPrepending(Tail(pathTable), made)
                      ELSE GenerateFromPrepending(Tail(pathTable), <<tool.result>> \o made)

RECURSIVE GenerateFrom(_, _)
\* the loop of generateSearchTools over Object.entries(spec.paths): nothing in it
\* catches what generateSearchTool throws
GenerateFrom(pathTable, made) ==
    IF pathTable = <<>>
    THEN Returned(made)
    ELSE LET item == Head(pathTable)
         IN  IF ~EndsWithSearch(item.path)
             THEN GenerateFrom(Tail(pathTable), made)
             ELSE LET tool == GenerateSearchTool(item.path, item)
                  IN  IF tool.threw
                      THEN tool
                      ELSE IF tool.result = NoResult
                      THEN GenerateFrom(Tail(pathTable), made)
                      ELSE GenerateFrom(Tail(pathTable), Append(made, tool.result))

\* generateSearchTools
GenerateSearchTools(pathTable) == GenerateFrom(pathTable, <<>>)

\* request-body schemas of the descriptions
ObjectSchema == Schema(UNDEF, TRUE, "object", FALSE, FALSE, <<>>)
ArraySchema == Schema(UNDEF, TRUE, "array", FALSE, FALSE, <<>>)
NullableObjectSchema == Schema(UNDEF, TRUE, "object", TRUE, FALSE, <<>>)
UntypedSchema == Schema(UNDEF, FALSE, "", FALSE, TRUE, <<"filters">>)
RefSchema(ref) == Schema(ref, FALSE, "", FALSE, FALSE, <<>>)

\* the path items a description is made of
PathItems ==
    {PathItem("/module/search",
              Operation("Search modules", UNDEF, "ModuleController.search", "schema",
                        RefSchema("#/components/schemas/ModuleSearchInput"))),
     PathItem("/Module/search",
              Operation("Search Modules (alt)", UNDEF, "ModuleAltController.search", "schema",
                        ObjectSchema)),
     PathItem("/player/search",
              Operation(UNDEF, "Search players", "PlayerController.search", "schema",
                        ObjectSchema)),
     PathItem("/player/{id}",
              Operation("Update a player", UNDEF, "PlayerController.update", "schema",
                        ObjectSchema)),
     PathItem("/api/player/search",
              Operation("Search players", UNDEF, "ApiPlayerController.search", "schema",
                        ObjectSchema)),
     PathItem("/search",
              Operation("Search everything", UNDEF, "SearchController.search", "schema",
                        ObjectSchema)),
     PathItem("/module/search", NoOperation),
     PathItem("/player/search",
              Operation("Search players", UNDEF, "PlayerController.search", "none", NoSchema)),
     PathItem("/Module/search",
              Operation("Search modules", UNDEF, "ModuleController.search", "noJson", NoSchema)),
     PathItem("/module/search",
              Operation("Search modules", UNDEF, "ModuleController.search", "noSchema", NoSchema)),
     PathItem("/player/search",
              Operation("Search players", UNDEF, "PlayerController.search", "schema",
                        RefSchema("#/components/schemas/Missing"))),
     PathItem("/module/search",
              Operation("Search modules", UNDEF, "ModuleController.search", "schema",
                        RefSchema("common.yaml#/SearchInput"))),
     PathItem("/player/search",
              Operation("Search players", UNDEF, "PlayerController.search", "schema",
                        ArraySchema)),
     PathItem("/Module/search",
              Operation("Search modules", UNDEF, "ModuleController.search", "schema",
                        NullableObjectSchema)),
     PathItem("/module/search",
              Operation(UNDEF, UNDEF, UNDEF, "schema", UntypedSchema))}

\* path tables of up to MaxPaths entries; the keys of an object are distinct
PathTables ==
    {t \in UNION {[1..k -> PathItems] : k \in 0..MaxPaths} :
        \A i, j \in DOMAIN t : i # j => t[i].path # t[j].path}

NotGenerated == [pending |-> TRUE]

GeneratorInit ==
    /\ ServerOff
    /\ registry = Idle
    /\ invocation = Idle
    /\ resolution = Idle
    /\ naming = Idle
    /\ streams = Idle
    /\ login = Idle
    /\ \E t \in PathTables :
        generation = [paths |-> t, first |-> NotGenerated, second |-> NotGenerated]

\* generateSearchTools() on the loaded description
Generate ==
    /\ generation.first = NotGenerated
    /\ generation' = [generation EXCEPT !.first = GenerateSearchTools(generation.paths)]
    /\ UNCHANGED <<serverVars, registry, invocation, resolution, naming, streams, login>>

\* generateSearchTools() once more on the same description
GenerateAgain ==
    /\ generation.first # NotGenerated
    /\ generation.second = NotGenerated
    /\ generation' = [generation EXCEPT !.second = GenerateSearchTools(generation.paths)]
    /\ UNCHANGED <<serverVars, registry, invocation, resolution, naming, streams, login>>

GeneratorNext ==
    \/ Generate
    \/ GenerateAgain

GeneratorSpec == GeneratorInit /\ [][GeneratorNext]_vars

-----------------------------------------------------------------------------
(* The function createApiCallFunction(operationId, path, method) returns,   *)
(* called with (input, client).  A path template is the sequence of its     *)
(* pieces: a literal piece or a {name} placeholder.  An input is undefined  *)
(* or an object, a function from its keys to string values.                *)

Literal(text) == [placeholder |-> FALSE, text |-> text]
Placeholder(name) == [placeholder |-> TRUE, text |-> name]

PathTemplates ==
    {<<Literal("/player/search")>>,
     <<Literal("/player/"), Placeholder("id")>>,
     <<Literal("/gameserver/"), Placeholder("gameServerId"),
       Literal("/player/"), Placeholder("id"), Literal("/kick")>>}

\* path.matchAll(/\{([^}]+)\}/g): the placeholder names in the order of the path
PathParams(template) ==
    LET holes == SelectSeq(template, LAMBDA piece : piece.placeholder)
    IN  [i \in 1..Len(holes) |-> holes[i].text]

FieldNames == {"id", "gameServerId", "filters"}
FieldValues == {"42", "a b/c"}

\* encodeURIComponent
EncodeURIComponent(value) ==
    CASE value = "a b/c" -> "a%20b%2Fc"
      [] OTHER -> value

\* the objects a caller may pass as input
InputObjects == UNION {[keys -> FieldValues] : keys \in SUBSET FieldNames}

UndefinedInput == [defined |-> FALSE, fields |-> <<>>]
DefinedInput(fields) == [defined |-> TRUE, fields |-> fields]

\* { ...input }: a fresh object with the input's own fields, {} for undefined
Spread(input) == IF input.defined THEN input.fields ELSE <<>>

\* processedPath.replace(`{${paramName}}`, text): the first occurrence only
ReplaceFirst(url, paramName, text) ==
    LET hits == {i \in 1..Len(url) : url[i] = Placeholder(paramName)}
    IN  IF hits = {}
        THEN url
        ELSE LET first == CHOOSE i \in hits : \A j \in hits : i <= j
             IN  [url EXCEPT ![first] = Literal(text)]

\* a delete that leaves the field where it is
KeepProperty(object, name) == object

\* delete requestData[paramName]
DeleteProperty(object, name) == [k \in DOMAIN object \ {name} |-> object[k]]

RECURSIVE ProcessPathParams(_, _, _)
\* the loop over pathParams: substitutes and removes each one, or throws
ProcessPathParams(pathParams, url, requestData) ==
    IF pathParams = <<>>
    THEN [threw |-> FALSE, error |-> NoError, url |-> url, requestData |-> requestData]
    ELSE LET paramName == Head(pathParams)
         IN  IF paramName \in DOMAIN requestData
             THEN ProcessPathParams(Tail(pathParams),
                                    ReplaceFirst(url, paramName,
                                                 EncodeURIComponent(requestData[paramName])),
                                    DeleteProperty(requestData, paramName))
             ELSE [threw |-> TRUE,
                   error |-> MkError("Error", <<"Missing required path parameter: ", paramName>>,
                                     "noResponse"),
                   url |-> url, requestData |-> requestData]

\* a method taken as it is written
MethodAsWritten(method) == method

\* method.toLowerCase()
ToLowerCase(method) ==
    CASE method = "GET" -> "get"
      [] method = "DELETE" -> "delete"
      [] method = "POST" -> "post"
      [] method = "PATCH" -> "patch"
      [] OTHER -> method

HttpMethods == {"get", "GET", "delete", "post", "PATCH"}

\* the config handed to axios.request; params and data are set only when fields remain
AxiosConfig(method, url, requestData) ==
    LET query == ToLowerCase(method) \in {"get", "delete"}
        some == DOMAIN requestData # {}
    IN  [method |-> ToLowerCase(method),
         url |-> url,
         hasParams |-> query /\ some,
         params |-> IF query /\ some THEN requestData ELSE <<>>,
         hasData |-> ~query /\ some,
         data |-> IF ~query /\ some THEN requestData ELSE <<>>]

NoRequest == [none |-> TRUE]

\* how a call of the function ends: what it threw or returned, the request it
\* issued (NoRequest if none), and the caller's input object after the call
CallOutcome(threw, error, response, request, inputAfter) ==
    [threw |-> threw, error |-> error, response |-> response, request |-> request,
     inputAfter |-> inputAfter]

\* the async function createApiCallFunction returns; its catch logs and rethrows
CallApi(template, method, input, hasAxios, http) ==
    IF ~hasAxios
    THEN CallOutcome(TRUE,
                     MkError("Error", <<"Could not access axios instance from client">>,
                             "noResponse"),
                     "none", NoRequest, input)
    ELSE LET p == ProcessPathParams(PathParams(template), template, Spread(input))
         IN  IF p.threw
             THEN CallOutcome(TRUE, p.error, "none", NoRequest, input)
             ELSE IF http.ok
             THEN CallOutcome(FALSE, NoError, http.body,
                              AxiosConfig(method, p.url, p.requestData), input)
             ELSE CallOutcome(TRUE, http.error, "none",
                              AxiosConfig(method, p.url, p.requestData), input)

\* what axios.request may do with the request
InvocationHttp ==
    {h \in HttpOutcomes :
        \/ h.ok
        \/ h.error.message = <<"Request failed with status code 400">>
            /\ h.error.response \in {"noResponse", "errorsList"}}

NotCalled == [pending |-> TRUE]

InvocationInit ==
    /\ ServerOff
    /\ registry = Idle
    /\ generation = Idle
    /\ resolution = Idle
    /\ naming = Idle
    /\ streams = Idle
    /\ login = Idle
    /\ \E template \in PathTemplates, method \in HttpMethods, hasAxios \in BOOLEAN,
          input \in {UndefinedInput} \cup {DefinedInput(o) : o \in InputObjects},
          http \in InvocationHttp :
        invocation = [template |-> template, method |-> method, input |-> input,
                      hasAxios |-> hasAxios, http |-> http, outcome |-> NotCalled]

\* apiCallFn(input, client)
Invoke ==
    /\ invocation.outcome = NotCalled
    /\ invocation' = [invocation EXCEPT !.outcome =
                        CallApi(invocation.template, invocation.method, invocation.input,
                                invocation.hasAxios, invocation.http)]
    /\ UNCHANGED <<serverVars, registry, generation, resolution, naming, streams, login>>

InvocationNext == Invoke

InvocationSpec == InvocationInit /\ [][InvocationNext]_vars

-----------------------------------------------------------------------------
(* The listening server with its SSE endpoint: POST /mcp requests of every  *)
(* kind, and GET /mcp connections that open and close, in any order.  The   *)
(* startup is over: the client is authenticated and the tools registered.   *)

\* app.get('/mcp'): refused without a session id the store holds, otherwise an
\* event stream is opened; the session store is read, not written
GetHandler(store, sessionId) ==
    IF ~Truthy(sessionId) \/ ~SessionHas(store, sessionId)
    THEN [status |-> StatusBadRequest, opened |-> FALSE, store |-> store]
    ELSE [status |-> StatusOk, opened |-> TRUE, store |-> store]

\* a close handler that drops the session of the connection
StreamClosedDeleting(store, sessionId) ==
    [id \in DOMAIN store \ {sessionId} |-> store[id]]

\* req.on('close'): clearInterval(keepAlive), nothing else
StreamClosed(store, sessionId) == store

RemoveAt(seq, i) == SubSeq(seq, 1, i - 1) \o SubSeq(seq, i + 1, Len(seq))

ListeningInit ==
    /\ phase = "listening"
    /\ config = "ok"
    /\ variant = "formatted"
    /\ client = "authenticated"
    /\ loginAttempts = 1
    /\ tools = RegisterAll(<<>>, <<ModuleInfo, PlayerInfo>>, "formatted")
    /\ sessions = <<>>
    /\ uuids = 0
    /\ issued = {}
    /\ exchange = NoExchange
    /\ loaded = "registered"
    /\ registry = Idle
    /\ generation = Idle
    /\ invocation = Idle
    /\ resolution = Idle
    /\ naming = Idle
    /\ login = Idle
    /\ streams = [open |-> <<>>, status |-> UNDEF]

\* GET /mcp
GetMcp ==
    /\ phase = "listening"
    /\ \E sessionId \in SessionHeaders :
         LET h == GetHandler(sessions, sessionId)
         IN  /\ h.opened => Len(streams.open) < MaxStreams
             /\ sessions' = h.store
             /\ streams' = [open |-> IF h.opened THEN Append(streams.open, sessionId)
                                     ELSE streams.open,
                            status |-> h.status]
    /\ UNCHANGED <<phase, config, variant, client, loginAttempts, tools, uuids, issued, exchange, loaded>>
    /\ UNCHANGED <<registry, generation, invocation, resolution, naming, login>>

\* the client of an open event stream goes away
CloseStream ==
    /\ \E i \in DOMAIN streams.open :
         /\ sessions' = StreamClosed(sessions, streams.open[i])
         /\ streams' = [streams EXCEPT !.open = RemoveAt(streams.open, i)]
    /\ UNCHANGED <<phase, config, variant, client, loginAttempts, tools, uuids, issued, exchange, loaded>>
    /\ UNCHANGED <<registry, generation, invocation, resolution, naming, login>>

ListeningNext == PostMcp \/ Deliver \/ GetMcp \/ CloseStream

ListeningSpec == ListeningInit /\ [][ListeningNext]_vars

-----------------------------------------------------------------------------
(* getClient under concurrent callers.  The function is async: a caller     *)
(* runs from one await to the next without interruption, and other callers  *)
(* run while it waits for login(), userControllerSetSelectedDomain(),       *)
(* userControllerMe() or sleep().  `handle` is the module-level `client`:   *)
(* unset, or the one Client object with what has been done to it so far.    *)

Callers == {"caller-1", "caller-2"}

Unset == [set |-> FALSE, loggedIn |-> FALSE, domain |-> "none"]

\* new Client({auth, url}): no request has been made with it yet
NewClient == [set |-> TRUE, loggedIn |-> FALSE, domain |-> "none"]

\* a caller: where it is in getClient, the attempt of the loop it is in, the
\* login() calls it has made, its lastError, and what it was handed or thrown
Caller(pc, attempt, logins, lastError, handed, thrown) ==
    [pc |-> pc, attempt |-> attempt, logins |-> logins, lastError |-> lastError,
     handed |-> handed, thrown |-> thrown]

NotCalling == Caller("idle", 0, 0, NoError, Unset, NoError)

LoginInit ==
    /\ ServerOff
    /\ registry = Idle
    /\ generation = Idle
    /\ invocation = Idle
    /\ resolution = Idle
    /\ naming = Idle
    /\ streams = Idle
    /\ \E env \in {"ok", "noCredentials", "noDomain"} :
         login = [env |-> env, handle |-> Unset, callers |-> [c \in Callers |-> NotCalling]]

LoginUnchanged ==
    UNCHANGED <<serverVars, registry, generation, invocation, resolution, naming, streams>>

\* the catch block of the loop: remember the error, then sleep and go round
\* again, or leave the loop and throw lastError
CatchAttempt(p, error) ==
    IF p.attempt < MAX_RETRIES
    THEN [p EXCEPT !.lastError = error, !.pc = "sleep"]
    ELSE [p EXCEPT !.lastError = error, !.pc = "threw", !.thrown = error]

\* getClient() is called: from `if (client) return client` to the first await
CallGetClient(c) ==
    /\ login.callers[c].pc = "idle"
    /\ IF login.handle.set
       THEN login' = [login EXCEPT !.callers[c].pc = "returned",
                                   !.callers[c].handed = login.handle]
       ELSE IF login.env = "noCredentials"
       THEN login' = [login EXCEPT !.callers[c].pc = "threw",
                        !.callers[c].thrown =
                            MkError("Error", <<"TAKARO_USERNAME and TAKARO_PASSWORD environment variables must be set">>,
                                    "noResponse")]
       ELSE IF login.env = "noDomain"
       THEN login' = [login EXCEPT !.callers[c].pc = "threw",
                        !.callers[c].thrown =
                            MkError("Error", <<"TAKARO_DOMAIN_ID environment variable must be set">>,
                                    "noResponse")]
       ELSE login' = [login EXCEPT !.handle = NewClient,
                                   !.callers[c].pc = "login",
                                   !.callers[c].attempt = 1,
                                   !.callers[c].logins = 1]
    /\ LoginUnchanged

\* await client.login() ends
ClientLogin(c) ==
    /\ login.callers[c].pc = "login"
    /\ \/ login' = [login EXCEPT !.handle.loggedIn = TRUE, !.callers[c].pc = "setDomain"]
       \/ login' = [login EXCEPT !.callers[c] =
                        CatchAttempt(login.callers[c],
                            MkError("AxiosError", <<"Request failed with status code 401">>, "noErrors"))]
    /\ LoginUnchanged

\* await client.user.userControllerSetSelectedDomain(domainId) ends
SetSelectedDomain(c) ==
    /\ login.callers[c].pc = "setDomain"
    /\ \/ \E selected \in {"configured", "other"} :
            login' = [login EXCEPT !.handle.domain = selected, !.callers[c].pc = "verify"]
       \/ login' = [login EXCEPT !.callers[c] =
                        CatchAttempt(login.callers[c],
                            MkError("Error", <<"Invalid domain ID or insufficient permissions for domain: ", "domainId">>,
                                    "noResponse"))]
    /\ LoginUnchanged

\* await client.user.userControllerMe() ends and the active domain is compared
VerifyDomain(c) ==
    /\ login.callers[c].pc = "verify"
    /\ \/ /\ login.handle.domain = "configured"
          /\ login' = [login EXCEPT !.callers[c].pc = "returned",
                                    !.callers[c].handed = login.handle]
       \/ /\ login.handle.domain # "configured"
          /\ login' = [login EXCEPT !.callers[c] =
                        CatchAttempt(login.callers[c],
                            MkError("Error", <<"Domain configuration error: Unable to set domain to ", "domainId">>,
                                    "noResponse"))]
       \/ login' = [login EXCEPT !.callers[c] =
                        CatchAttempt(login.callers[c],
                            MkError("AxiosError", <<"Request failed with status code 500">>, "noErrors"))]
    /\ LoginUnchanged

\* await sleep(delay) ends: the next round of the loop calls login()
Sleep(c) ==
    /\ login.callers[c].pc = "sleep"
    /\ login' = [login EXCEPT !.callers[c].pc = "login",
                              !.callers[c].attempt = @ + 1,
                              !.callers[c].logins = @ + 1]
    /\ LoginUnchanged

LoginNext ==
    \E c \in Callers :
        \/ CallGetClient(c)
        \/ ClientLogin(c)
        \/ SetSelectedDomain(c)
        \/ VerifyDomain(c)
        \/ Sleep(c)

LoginSpec == LoginInit /\ [][LoginNext]_vars

-----------------------------------------------------------------------------
(* SchemaResolver over schema trees.  A schema object is a node: its $ref   *)
(* (UNDEF when absent), its scalar keys (type, nullable, description, ...)  *)
(* as a function from key to value, and its nested schemas as a function    *)
(* from the key that holds them (properties, items, allOf,                  *)
(* additionalProperties) to the sequence of schemas under that key, in key  *)
(* order.  `visited` is the one Set a top-level resolveSchema call creates  *)
(* and every nested call shares.  In the schemas below a component refers   *)
(* to other components only through its first nested schema, so that the    *)
(* branches Promise.all starts for allOf meet `visited` as a loop would.    *)

SchemaNode(ref, scalars, nested) == [ref |-> ref, scalars |-> scalars, nested |-> nested]

NoKeys == <<>>

\* the keys resolveSchema and toMCPSchema descend into, in the order of Object.keys
NestedKeys == <<"properties", "items", "allOf", "anyOf", "oneOf", "additionalProperties">>

PointerA == "#/components/schemas/A"
PointerB == "#/components/schemas/B"
PointerMissing == "#/components/schemas/Missing"
PointerExternal == "common.yaml#/X"

Pointers == {PointerA, PointerB, PointerMissing, PointerExternal}

\* ref.startsWith('#/')
StartsWithHashSlash(ref) == ref # PointerExternal

\* { $ref: ref }, what resolveRef returns for a pointer it has visited
RefMarker(ref) == SchemaNode(ref, NoKeys, NoKeys)

\* one function overriding another key by key: { ...low, ...high }
SpreadOver(low, high) ==
    [k \in DOMAIN low \cup DOMAIN high |-> IF k \in DOMAIN high THEN high[k] ELSE low[k]]

\* a spread in which the referenced content wins over the sibling keys
MergeTargetFirst(resolved, schema) ==
    SchemaNode(resolved.ref,
               SpreadOver(schema.scalars, resolved.scalars),
               SpreadOver(schema.nested, resolved.nested))

\* { ...resolved, ...siblings }: the sibling keys are copied as they are
MergeSiblings(resolved, schema) ==
    SchemaNode(resolved.ref,
               SpreadOver(resolved.scalars, schema.scalars),
               SpreadOver(resolved.nested, schema.nested))

\* how a resolution ends: thrown error or tree, the visited set it leaves, and
\* whether the call budget ran out before it ended
Resolution(threw, error, tree, visited, exhausted) ==
    [threw |-> threw, error |-> error, tree |-> tree, visited |-> visited,
     exhausted |-> exhausted]

Exhausted(visited) == Resolution(FALSE, NoError, RefMarker(UNDEF), visited, TRUE)

RECURSIVE ResolveSchemaTree(_, _, _, _)
RECURSIVE ResolveRefTree(_, _, _, _)
RECURSIVE ResolveRefUnguarded(_, _, _, _)
RECURSIVE ResolveEach(_, _, _, _, _)
RECURSIVE ResolveNested(_, _, _, _, _)

\* the schemas under one key, resolved one after the other with the shared set
ResolveEach(schemas, done, visited, components, budget) ==
    IF schemas = <<>>
    THEN Resolution(FALSE, NoError, done, visited, FALSE)
    ELSE LET r == ResolveSchemaTree(Head(schemas), visited, components, budget)
         IN  IF r.threw \/ r.exhausted
             THEN r
             ELSE ResolveEach(Tail(schemas), Append(done, r.tree), r.visited, components, budget)

\* the loop over Object.keys(result) of resolveSchema
ResolveNested(keys, nested, visited, components, budget) ==
    IF keys = <<>>
    THEN Resolution(FALSE, NoError, nested, visited, FALSE)
    ELSE IF Head(keys) \notin DOMAIN nested
    THEN ResolveNested(Tail(keys), nested, visited, components, budget)
    ELSE LET r == ResolveEach(nested[Head(keys)], <<>>, visited, components, budget)
         IN  IF r.threw \/ r.exhausted
             THEN r
             ELSE ResolveNested(Tail(keys), [nested EXCEPT ![Head(keys)] = r.tree],
                                r.visited, components, budget)

\* a resolveRef without the visited check
ResolveRefUnguarded(ref, visited, components, budget) ==
    IF ~StartsWithHashSlash(ref)
    THEN Resolution(TRUE, MkError("Error", <<"External references not supported: ", ref>>,
                                  "noResponse"),
                    RefMarker(UNDEF), visited \cup {ref}, FALSE)
    ELSE IF ref \notin DOMAIN components
    THEN Resolution(TRUE, MkError("Error", <<"Invalid reference: ", ref>>, "noResponse"),
                    RefMarker(UNDEF), visited \cup {ref}, FALSE)
    ELSE ResolveSchemaTree(components[ref], visited \cup {ref}, components, budget)

\* resolveRef: a visited pointer comes back as { $ref }, an external or dangling one throws
ResolveRefTree(ref, visited, components, budget) ==
    IF ref \in visited
    THEN Resolution(FALSE, NoError, RefMarker(ref), visited, FALSE)
    ELSE IF ~StartsWithHashSlash(ref)
    THEN Resolution(TRUE, MkError("Error", <<"External references not supported: ", ref>>,
                                  "noResponse"),
                    RefMarker(UNDEF), visited \cup {ref}, FALSE)
    ELSE IF ref \notin DOMAIN components
    THEN Resolution(TRUE, MkError("Error", <<"Invalid reference: ", ref>>, "noResponse"),
                    RefMarker(UNDEF), visited \cup {ref}, FALSE)
    ELSE ResolveSchemaTree(components[ref], visited \cup {ref}, components, budget)

\* resolveSchema(schema, visited); budget counts the nested calls still allowed
ResolveSchemaTree(schema, visited, components, budget) ==
    IF budget = 0
    THEN Exhausted(visited)
    ELSE IF schema.ref # UNDEF
    THEN LET r == ResolveRefTree(schema.ref, visited, components, budget - 1)
         IN  IF r.threw \/ r.exhausted
             THEN r
             ELSE Resolution(FALSE, NoError, MergeSiblings(r.tree, schema), r.visited, FALSE)
    ELSE LET r == ResolveNested(NestedKeys, schema.nested, visited, components, budget - 1)
         IN  IF r.threw \/ r.exhausted
             THEN r
             ELSE Resolution(FALSE, NoError, SchemaNode(UNDEF, schema.scalars, r.tree),
                             r.visited, FALSE)

\* the schemas a document is built from
Ref(pointer) == SchemaNode(pointer, NoKeys, NoKeys)
LeafObject == SchemaNode(UNDEF, [type |-> "object", description |-> "from the component"], NoKeys)
LeafString == SchemaNode(UNDEF, [type |-> "string"], NoKeys)
ObjectOf(properties) == SchemaNode(UNDEF, [type |-> "object"], [properties |-> properties])
ArrayOf(schema) == SchemaNode(UNDEF, [type |-> "array"], [items |-> <<schema>>])
AllOf(branches) == SchemaNode(UNDEF, NoKeys, [allOf |-> branches])
MapOf(schema) == SchemaNode(UNDEF, [type |-> "object"], [additionalProperties |-> <<schema>>])

\* components.schemas of a document: without a cycle, with a schema that
\* refers to itself, with two schemas that refer to each other
AcyclicComponents == (PointerA :> LeafObject) @@ (PointerB :> ObjectOf(<<Ref(PointerA)>>))
SelfCyclicComponents == (PointerA :> ObjectOf(<<Ref(PointerA)>>)) @@ (PointerB :> LeafString)
MutualComponents == (PointerA :> ObjectOf(<<Ref(PointerB)>>)) @@ (PointerB :> ArrayOf(Ref(PointerA)))

ComponentTables == {AcyclicComponents, SelfCyclicComponents, MutualComponents}

\* the schemas handed to resolveSchema
RootSchemas ==
    {LeafObject}
    \cup {Ref(p) : p \in Pointers}
    \cup {SchemaNode(p, [description |-> "beside the pointer"], NoKeys) : p \in Pointers}
    \cup {SchemaNode(p, NoKeys, [properties |-> <<Ref(q)>>]) : p \in Pointers, q \in Pointers}
    \cup {SchemaNode(p, NoKeys, [properties |-> <<LeafString>>]) : p \in Pointers}
    \cup {ObjectOf(<<Ref(p), Ref(q)>>) : p \in Pointers, q \in Pointers}
    \cup {ArrayOf(Ref(p)) : p \in Pointers}
    \cup {AllOf(<<Ref(p), Ref(q)>>) : p \in Pointers, q \in Pointers}
    \cup {MapOf(Ref(p)) : p \in Pointers}
    \cup {ObjectOf(<<ArrayOf(Ref(p))>>) : p \in Pointers}

NotResolved == [pending |-> TRUE]

\* the keys toMCPSchema deletes
OpenAPIFields ==
    {"discriminator", "xml", "externalDocs", "example", "deprecated", "readOnly",
     "writeOnly", "nullable"}

\* the keys of a function other than the given ones
Without(f, keys) == [k \in DOMAIN f \ keys |-> f[k]]

\* [...type, 'null'] / [type, 'null'], written like every type array
WithNull(type) == type \o ",null"

RECURSIVE ToMCPSchemaTree(_)
RECURSIVE ToMCPEach(_)

ToMCPEach(schemas) ==
    IF schemas = <<>> THEN <<>> ELSE <<ToMCPSchemaTree(Head(schemas))>> \o ToMCPEach(Tail(schemas))

\* toMCPSchema(schema)
ToMCPSchemaTree(schema) ==
    LET cleaned == Without(schema.scalars, OpenAPIFields)
        nullable == "nullable" \in DOMAIN schema.scalars /\ schema.scalars.nullable = "true"
        scalars == IF nullable /\ "type" \in DOMAIN cleaned
                   THEN [cleaned EXCEPT !.type = WithNull(cleaned.type)]
                   ELSE cleaned
    IN  SchemaNode(schema.ref, scalars,
                   [k \in DOMAIN schema.nested |-> ToMCPEach(schema.nested[k])])

\* a toMCPSchema call: the object passed as it is after the call (the function
\* writes to its deep copy only) and the object returned
ToMCPCall(schema) == [argument |-> schema, output |-> ToMCPSchemaTree(schema)]

\* the schemas handed to toMCPSchema
Annotations ==
    [discriminator |-> "kind", xml |-> "name", externalDocs |-> "url", example |-> "sample",
     deprecated |-> "true", readOnly |-> "true", writeOnly |-> "false"]

AnnotatedLeaves ==
    {SchemaNode(UNDEF, SpreadOver(SpreadOver(type, nullable), notes), NoKeys) :
        type \in {NoKeys, [type |-> "string"], [type |-> "string,integer"]},
        nullable \in {NoKeys, [nullable |-> "true"], [nullable |-> "false"]},
        notes \in {[description |-> "kept"], SpreadOver([description |-> "kept"], Annotations)}}

ConversionInputs ==
    AnnotatedLeaves
    \cup {SchemaNode(UNDEF, [type |-> "object", nullable |-> "true", example |-> "sample"],
                     [k \in {key} |-> <<leaf>>]) :
             key \in {"properties", "items", "allOf", "anyOf", "oneOf", "additionalProperties"},
             leaf \in AnnotatedLeaves}
    \cup {ObjectOf(<<ArrayOf(leaf), leaf>>) : leaf \in AnnotatedLeaves}

ResolverInit ==
    /\ ServerOff
    /\ registry = Idle
    /\ generation = Idle
    /\ invocation = Idle
    /\ naming = Idle
    /\ streams = Idle
    /\ login = Idle
    /\ \E root \in RootSchemas, components \in ComponentTables :
         resolution = [root |-> root, components |-> components,
                       first |-> NotResolved, again |-> NotResolved, second |-> NotResolved,
                       input |-> UNDEF, converted |-> NotResolved]

\* resolveSchema(root): a call with a fresh visited set
Resolve ==
    /\ resolution.first = NotResolved
    /\ resolution' = [resolution EXCEPT
           !.first = ResolveSchemaTree(resolution.root, {}, resolution.components, MaxCalls)]
    /\ UNCHANGED <<serverVars, registry, generation, invocation, naming, streams, login>>

\* resolveSchema(root) called once more on the same schema
ResolveAgain ==
    /\ resolution.first # NotResolved
    /\ resolution.again = NotResolved
    /\ resolution' = [resolution EXCEPT
           !.again = ResolveSchemaTree(resolution.root, {}, resolution.components, MaxCalls)]
    /\ UNCHANGED <<serverVars, registry, generation, invocation, naming, streams, login>>

\* resolveSchema called on what the first call returned
ResolveResult ==
    /\ resolution.first # NotResolved
    /\ ~resolution.first.threw /\ ~resolution.first.exhausted
    /\ resolution.second = NotResolved
    /\ resolution' = [resolution EXCEPT
           !.second = ResolveSchemaTree(resolution.first.tree, {}, resolution.components, MaxCalls)]
    /\ UNCHANGED <<serverVars, registry, generation, invocation, naming, streams, login>>

\* toMCPSchema(input)
Convert ==
    /\ resolution.converted = NotResolved
    /\ \E input \in ConversionInputs :
         resolution' = [resolution EXCEPT !.input = input, !.converted = ToMCPCall(input)]
    /\ UNCHANGED <<serverVars, registry, generation, invocation, naming, streams, login>>

ResolverNext == Resolve \/ ResolveAgain \/ ResolveResult \/ Convert

ResolverSpec == ResolverInit /\ [][ResolverNext]_vars

-----------------------------------------------------------------------------
(* OpenAPIToolGenerator.operationIdToMethod.  A string is the sequence of   *)
(* its characters, so that split, charAt and slice act on it as they do.    *)

Dot == "."

\* the letters that occur at the start of a segment, in both cases
LowerOf == [M |-> "m", P |-> "p", C |-> "c", S |-> "s", G |-> "g"]
UpperOf == [m |-> "M", p |-> "P", c |-> "C", s |-> "S", g |-> "G", l |-> "L"]

\* String.prototype.toLowerCase / toUpperCase on one character or on ''
CharToLowerCase(c) == IF c \in DOMAIN LowerOf THEN LowerOf[c] ELSE c
CharToUpperCase(c) == IF c \in DOMAIN UpperOf THEN UpperOf[c] ELSE c

\* s.charAt(0) and s.slice(1); charAt gives '' on the empty string
CharAt0(s) == IF s = <<>> THEN <<>> ELSE <<Head(s)>>
Slice1(s) == IF s = <<>> THEN <<>> ELSE Tail(s)

RECURSIVE SplitFrom(_, _, _)

\* s.split('.'): `part` is the segment being read, `parts` the segments read
SplitFrom(s, part, parts) ==
    IF s = <<>> THEN Append(parts, part)
    ELSE IF Head(s) = Dot THEN SplitFrom(Tail(s), <<>>, Append(parts, part))
    ELSE SplitFrom(Tail(s), Append(part, Head(s)), parts)

Split(s) == SplitFrom(s, <<>>, <<>>)

LowerFirst(part) == [i \in DOMAIN CharAt0(part) |-> CharToLowerCase(CharAt0(part)[i])] \o Slice1(part)
UpperFirst(part) == [i \in DOMAIN CharAt0(part) |-> CharToUpperCase(CharAt0(part)[i])] \o Slice1(part)

RECURSIVE AppendParts(_, _, _)

\* the loop over parts[i], i >= 1
AppendParts(methodName, parts, i) ==
    IF i > Len(parts) THEN methodName
    ELSE AppendParts(methodName \o UpperFirst(parts[i]), parts, i + 1)

ControllerSuffix == <<"C", "o", "n", "t", "r", "o", "l", "l", "e", "r">>

EndsWithController(part) ==
    /\ Len(part) >= Len(ControllerSuffix)
    /\ SubSeq(part, Len(part) - Len(ControllerSuffix) + 1, Len(part)) = ControllerSuffix

StripController(part) ==
    IF EndsWithController(part) THEN SubSeq(part, 1, Len(part) - Len(ControllerSuffix)) ELSE part

\* an operationIdToMethod that drops a "Controller" at the end of the first segment
OperationIdToMethodStripping(operationId) ==
    IF operationId = <<>> THEN <<>>
    ELSE LET parts == Split(operationId)
         IN  AppendParts(StripController(LowerFirst(parts[1])), parts, 2)

\* operationIdToMethod(operationId)
OperationIdToMethod(operationId) ==
    IF operationId = <<>> THEN <<>>
    ELSE LET parts == Split(operationId)
         IN  AppendParts(LowerFirst(parts[1]), parts, 2)

\* the operation ids the function is called with
ModuleWord == <<"M", "o", "d", "u", "l", "e">>
PlayerWord == <<"P", "l", "a", "y", "e", "r">>
FirstSegments ==
    {ModuleWord \o ControllerSuffix, PlayerWord \o ControllerSuffix, ControllerSuffix,
     LowerFirst(ModuleWord) \o ControllerSuffix, ModuleWord, <<>>}
LaterSegments ==
    {<<"s", "e", "a", "r", "c", "h">>, <<"S", "e", "a", "r", "c", "h">>,
     <<"g", "e", "t", "O", "n", "e">>, <<>>}
OperationIds ==
    FirstSegments
    \cup {f \o <<Dot>> \o l : f \in FirstSegments, l \in LaterSegments}
    \cup {f \o <<Dot>> \o l \o <<Dot>> \o m : f \in FirstSegments, l \in LaterSegments, m \in LaterSegments}

NotNamed == [pending |-> TRUE]

NamingInit ==
    /\ ServerOff
    /\ registry = Idle
    /\ generation = Idle
    /\ invocation = Idle
    /\ resolution = Idle
    /\ streams = Idle
    /\ login = Idle
    /\ \E id \in OperationIds : naming = [id |-> id, first |-> NotNamed, second |-> NotNamed]

\* operationIdToMethod(id)
NameOperation ==
    /\ naming.first = NotNamed
    /\ naming' = [naming EXCEPT !.first = OperationIdToMethod(naming.id)]
    /\ UNCHANGED <<serverVars, registry, generation, invocation, resolution, streams, login>>

\* operationIdToMethod(id) once more
NameOperationAgain ==
    /\ naming.first # NotNamed
    /\ naming.second = NotNamed
    /\ naming' = [naming EXCEPT !.second = OperationIdToMethod(naming.id)]
    /\ UNCHANGED <<serverVars, registry, generation, invocation, resolution, streams, login>>

NamingNext == NameOperation \/ NameOperationAgain

NamingSpec == NamingInit /\ [][NamingNext]_vars

-----------------------------------------------------------------------------
(* Properties *)

\* an exchange is on the wire
Answering == exchange # NoExchange

\* the exchange on the wire went through MCPHandler.handleRequest
Dispatched == Answering /\ exchange.dispatched

\* the exchange on the wire is a dispatched tools/call
ToolCall == Dispatched /\ exchange.req.method = "tools/call"

\* params.name of the request on the wire
RequestedName == IF exchange.req.params.defined THEN exchange.req.params.name ELSE UNDEF

\* params.arguments of the request on the wire
RequestedArgs ==
    IF exchange.req.params.defined THEN exchange.req.params.arguments ELSE InputUndefined

IsError(code) == exchange.response.has = "error" /\ exchange.response.error.code = code

IsResult == exchange.response.has = "result"

\* the text of the tool result on the wire
ResultText == exchange.response.result.content[1].text

\* C1: every response to a POST /mcp request whose id is a string, a number or
\* null carries that id: results, dispatcher errors, and the transport's own
\* origin rejection.
C1_IdEcho ==
    Answering /\ exchange.req.id.kind # "undefined"
        => exchange.response.id = exchange.req.id

\* C2: a tools/call whose session id is absent, or present but not in the session
\* store, is answered -32602; no tool is executed, the client handle is not
\* acquired and the remote API is not called.
C2_SessionGate ==
    ToolCall /\ (exchange.req.sessionId = UNDEF \/ exchange.req.sessionId \notin DOMAIN sessions)
        => /\ IsError(InvalidParams)
           /\ exchange.executed = UNDEF
           /\ ~exchange.clientAcquired
           /\ ~exchange.apiCalled

\* C2 happens: a call for a registered tool under a session id the store does not
\* hold was refused
C2_Witness ==
    /\ ToolCall
    /\ exchange.req.sessionId = "stale-session"
    /\ RegistryHas(tools, RequestedName)
    /\ IsError(InvalidParams)

\* C3 as stated: once initialize has handed out a session id, every later
\* tools/call carrying it returns a result (a result or a tool-level error inside
\* a result), never a protocol error.
C3_AlwaysResult ==
    ToolCall /\ exchange.req.sessionId \in issued => IsResult

\* C3 as amended: once initialize has handed out a session id, a later tools/call
\* carrying it is never answered -32602: it returns a result when the named tool is
\* registered and execute returns, -32603 when execute throws, and -32601 when the
\* tool is not registered.
C3_NeverInvalidParams ==
    ToolCall /\ exchange.req.sessionId \in issued
        => /\ ~IsError(InvalidParams)
           /\ IF RegistryHas(tools, RequestedName)
              THEN \/ IsResult /\ exchange.thrown = NoError
                   \/ IsError(InternalError) /\ exchange.thrown # NoError
              ELSE IsError(MethodNotFound)

\* C3 happens: a call under an issued session id reached the remote API and
\* returned a result
C3_Witness ==
    /\ ToolCall
    /\ exchange.req.sessionId \in issued
    /\ exchange.apiCalled
    /\ IsResult

\* C4: a tools/call with a valid session id that names a tool the registry does
\* not hold is answered -32601 with a message that includes the requested name,
\* and no tool is executed.
C4_UnknownTool ==
    ToolCall /\ exchange.req.sessionId \in DOMAIN sessions /\ ~RegistryHas(tools, RequestedName)
        => /\ IsError(MethodNotFound)
           /\ Includes(exchange.response.error.message, Str(RequestedName))
           /\ exchange.executed = UNDEF
           /\ ~exchange.apiCalled

\* C4 happens: with tools registered, a call for "unknownTool" under a valid
\* session was answered -32601
C4_Witness ==
    /\ ToolCall
    /\ exchange.req.sessionId \in DOMAIN sessions
    /\ RequestedName = "unknownTool"
    /\ Len(tools) > 0
    /\ IsError(MethodNotFound)

\* C5: initialize with a session id the store holds creates no session and sets no
\* header; otherwise it creates exactly one session under a fresh id, sets the
\* Mcp-Session-Id header to that id, and the id the client supplied stays invalid.
\* Either way the response is the fixed protocol metadata.
C5_Initialize ==
    [][(~Answering /\ Answering' /\ exchange'.dispatched /\ exchange'.req.method = "initialize")
        => /\ exchange'.response = ResultResponse(InitializeResult, exchange'.req.id)
           /\ IF exchange'.req.sessionId \in DOMAIN sessions
              THEN /\ sessions' = sessions
                   /\ exchange'.header = UNDEF
              ELSE /\ exchange'.header # UNDEF
                   /\ exchange'.header \notin DOMAIN sessions
                   /\ exchange'.header # exchange'.req.sessionId
                   /\ DOMAIN sessions' = DOMAIN sessions \cup {exchange'.header}
                   /\ \A s \in DOMAIN sessions : sessions'[s] = sessions[s]
                   /\ exchange'.req.sessionId \notin DOMAIN sessions']_vars

\* C5 happens: initialize under an unknown session id, with a session already in
\* the store, made a second session and put its id in the header
C5_Witness ==
    /\ Dispatched
    /\ exchange.req.method = "initialize"
    /\ exchange.req.sessionId = "stale-session"
    /\ exchange.header \in DOMAIN sessions
    /\ Cardinality(DOMAIN sessions) = 2

\* C6: tools/list returns, whatever the session id, the projection of the
\* registry: one entry per registered tool, in order, holding name, description
\* and inputSchema and nothing else.
C6_ToolsList ==
    Dispatched /\ exchange.req.method = "tools/list"
        => /\ IsResult
           /\ exchange.response.result.kind = "toolsList"
           /\ Len(exchange.response.result.tools) = Len(tools)
           /\ \A i \in 1..Len(tools) :
                LET entry == exchange.response.result.tools[i]
                IN  /\ DOMAIN entry = {"name", "description", "inputSchema"}
                    /\ entry.name = tools[i].metadata.name
                    /\ entry.description = tools[i].metadata.description
                    /\ entry.inputSchema = tools[i].inputSchema
           /\ \A i, j \in 1..Len(tools) :
                i # j => exchange.response.result.tools[i].name
                            # exchange.response.result.tools[j].name

\* C6 happens: a tools/list without a session id listed a registry of two tools
C6_Witness ==
    /\ Dispatched
    /\ exchange.req.method = "tools/list"
    /\ exchange.req.sessionId = UNDEF
    /\ Len(tools) = 2
    /\ IsResult

\* C7: a tools/call that reaches execute of a registered DynamicTool yields a
\* response with a result: execute hands every failure back as a ToolResult.
C7_ExecuteNeverFails ==
    ToolCall /\ exchange.executed # UNDEF
        => IsResult /\ exchange.thrown = NoError

Absent(f, input) == ~input.defined \/ f \notin input.keys

\* C9: when a field listed in the executed tool's inputSchema.required is absent
\* from the input, the bound invocation function is not called and the outcome is
\* a validation failure: a result whose text names a missing field.
C9_RequiredFields ==
    ToolCall /\ exchange.executed # UNDEF
        => LET schema == RegistryGet(tools, exchange.executed).inputSchema
               missing == {i \in 1..Len(schema.required) :
                                Absent(schema.required[i], RequestedArgs)}
           IN  schema.requiredDefined /\ missing # {}
                => /\ ~exchange.apiCalled
                   /\ exchange.http = NoHttp
                   /\ IsResult
                   /\ \E i \in missing : Includes(ResultText, schema.required[i])

\* C9 happens: searchModule, which requires "filters", was called with {} and
\* answered "Missing required field" without calling the remote API
C9_Witness ==
    /\ ToolCall
    /\ exchange.executed = "searchModule"
    /\ RequestedArgs = InputObject({})
    /\ ~exchange.apiCalled
    /\ IsResult
    /\ Includes(ResultText, "Missing required field: ")

\* C10: a request whose method is none of initialize, tools/list, tools/call is
\* answered -32601 with a message quoting the method, and changes neither the
\* session store nor the registry.
C10_UnknownMethod ==
    [][(~Answering /\ Answering' /\ exchange'.dispatched
            /\ exchange'.req.method \notin {"initialize", "tools/list", "tools/call"})
        => /\ exchange'.response.has = "error"
           /\ exchange'.response.error.code = MethodNotFound
           /\ Includes(exchange'.response.error.message, Str(exchange'.req.method))
           /\ sessions' = sessions
           /\ tools' = tools]_vars

\* C10 happens: "resources/list" was answered -32601 while a session and a tool exist
C10_Witness ==
    /\ Dispatched
    /\ exchange.req.method = "resources/list"
    /\ IsError(MethodNotFound)
    /\ DOMAIN sessions # {}
    /\ Len(tools) > 0

\* C11: a POST /mcp carrying an Origin that is not in the allow-list is answered
\* -32000 without the dispatcher being invoked: no session is created, no header is
\* set, the client is not acquired and no tool is executed.  A POST without an
\* Origin header passes the check and is dispatched.
C11_OriginCheck ==
    [][(~Answering /\ Answering')
        => IF Truthy(exchange'.req.origin) /\ exchange'.req.origin \notin AllowedOrigins
           THEN /\ exchange'.response.has = "error"
                /\ exchange'.response.error.code = OriginRejected
                /\ exchange'.status = StatusForbidden
                /\ ~exchange'.dispatched
                /\ sessions' = sessions
                /\ uuids' = uuids
                /\ exchange'.header = UNDEF
                /\ ~exchange'.clientAcquired
                /\ exchange'.executed = UNDEF
                /\ ~exchange'.apiCalled
           ELSE /\ exchange'.dispatched
                /\ exchange'.response.has = "error"
                        => exchange'.response.error.code # OriginRejected]_vars

\* C11 happens: a tools/call that names a registered tool under a valid session
\* was rejected for its origin
C11_Witness ==
    /\ Answering
    /\ exchange.req.origin = "http://evil.example"
    /\ exchange.req.method = "tools/call"
    /\ exchange.req.sessionId \in DOMAIN sessions
    /\ RegistryHas(tools, RequestedName)
    /\ IsError(OriginRejected)

\* C12: the registry is populated and requests are served only with an
\* authenticated client; when getClient fails at startup, for exhausted retries or
\* missing credentials or domain, the process has exited: the registry stays
\* empty, no request is served, and nothing happens afterwards.
C12_AuthenticateFirst ==
    /\ [](/\ phase \in {"authenticated", "toolsReady", "listening"} => client = "authenticated"
          /\ (tools # <<>> \/ loaded # "pending") => client = "authenticated"
          /\ (Answering \/ sessions # <<>>) => client = "authenticated" /\ phase = "listening"
          /\ client # "authenticated" => phase \in {"starting", "exited"}
          /\ phase = "exited" => client # "authenticated")
    /\ [][phase = "exited" => UNCHANGED vars]_vars

\* C12 happens: all login attempts failed and the process exited
C12_Witness ==
    /\ phase = "exited"
    /\ client = "unauthenticated"
    /\ loginAttempts = MAX_RETRIES

\* C13: when loading the API description or generating the tools failed, the
\* registry holds no tool and the startup goes on to listen.
C13_ToolFailureCaught ==
    loaded \in {"loadFailed", "generateFailed"}
        => /\ tools = <<>>
           /\ phase \in {"toolsReady", "listening"}
           /\ phase = "toolsReady" => ENABLED Listen

\* C13 happens: after a failed generation the server answers tools/list with an
\* empty list
C13_Witness ==
    /\ loaded = "generateFailed"
    /\ phase = "listening"
    /\ Dispatched
    /\ exchange.req.method = "tools/list"
    /\ IsResult
    /\ Len(exchange.response.result.tools) = 0

\* C14: register never fails; registering a tool under a name that is taken keeps
\* size() and every other entry and makes get(name) the new tool; and size() is
\* always the number of distinct names registered since the last clear().
C14_RegisterLastWriteWins ==
    /\ [](RegistrySize(registry.tools) = Cardinality(registry.names))
    /\ [][registry'.last.op = "register"
            => LET tool == registry'.last.tool
                   name == tool.metadata.name
               IN  /\ RegistryGet(registry'.tools, name) = tool
                   /\ \A other \in (RegistryNames \cup {"unknownTool"}) \ {name} :
                        RegistryGet(registry'.tools, other) = RegistryGet(registry.tools, other)
                   /\ RegistrySize(registry'.tools)
                        = IF RegistryHas(registry.tools, name)
                          THEN RegistrySize(registry.tools)
                          ELSE RegistrySize(registry.tools) + 1]_vars

\* C14 happens: with two tools registered, one name was registered again with
\* another tool, which get(name) now returns
C14_Witness ==
    /\ registry # Idle
    /\ registry.last.op = "register"
    /\ registry.last.warned
    /\ RegistrySize(registry.tools) = 2
    /\ RegistryGet(registry.tools, "searchModule") = registry.last.tool
    /\ registry.last.tool.metadata.description = "Search Modules (alt)"

\* generateSearchTools has run on the description
Generated == generation # Idle /\ generation.first # NotGenerated

\* the tools a run returned, none when it threw
ToolsOf(outcome) == IF outcome.threw THEN <<>> ELSE outcome.result

\* the run returned a tool for the path
HasToolFor(outcome, path) == \E i \in DOMAIN ToolsOf(outcome) : ToolsOf(outcome)[i].path = path

\* the operation is there with a JSON request-body schema
HasPostWithSchema(item) == item.post # NoOperation /\ item.post.body = "schema"

\* C15 as stated: there is a search tool for a path item exactly when its path ends
\* with "/search", it has a POST operation and a JSON request-body schema; the
\* tool's entity type is the segment before "/search" and its name is "search" +
\* capitalize(entityType).
C15_ExactlyWhenSearchPath ==
    Generated
        => /\ \A k \in DOMAIN generation.paths :
                LET item == generation.paths[k]
                IN  HasToolFor(generation.first, item.path)
                        <=> EndsWithSearch(item.path) /\ HasPostWithSchema(item)
           /\ \A i \in DOMAIN ToolsOf(generation.first) :
                LET tool == ToolsOf(generation.first)[i]
                    segments == PathSegments(tool.path)
                IN  /\ tool.entityType = segments[Len(segments) - 1]
                    /\ tool.metadata.name = "search" \o Capitalize(tool.entityType)

\* C15 as amended: generateSearchTools throws exactly when the request-body schema
\* of a candidate cannot be resolved, a candidate being a path item whose path is
\* one non-empty segment followed by "/search" and that has a POST operation with
\* a JSON request-body schema.  When it returns, there is a search tool for a path
\* item exactly when the item is a candidate; the tool's entity type is that
\* segment and its name is "search" + capitalize(entityType).  A path that does not
\* end with "/search", or has more or fewer segments before it, has no tool.
C15_ExactlyWhenEntitySearchPath ==
    Generated
        => /\ generation.first.threw
                <=> \E k \in DOMAIN generation.paths :
                        LET item == generation.paths[k]
                            segments == PathSegments(item.path)
                        IN  /\ Len(segments) = 2
                            /\ segments[1] # ""
                            /\ segments[2] = "search"
                            /\ HasPostWithSchema(item)
                            /\ ResolveSchema(item.post.schema).threw
           /\ ~generation.first.threw => \A k \in DOMAIN generation.paths :
                LET item == generation.paths[k]
                    segments == PathSegments(item.path)
                IN  HasToolFor(generation.first, item.path)
                        <=> /\ Len(segments) = 2
                            /\ segments[1] # ""
                            /\ segments[2] = "search"
                            /\ HasPostWithSchema(item)
           /\ \A i \in DOMAIN ToolsOf(generation.first) :
                LET tool == ToolsOf(generation.first)[i]
                    segments == PathSegments(tool.path)
                IN  /\ tool.entityType = segments[1]
                    /\ tool.metadata.name = "search" \o Capitalize(tool.entityType)
                    /\ tool.method = "post"

\* C15 happens: of /api/player/search and /module/search only the second got a
\* tool, searchModule
C15_Witness ==
    /\ Generated
    /\ ~generation.first.threw
    /\ \E k \in DOMAIN generation.paths : generation.paths[k].path = "/api/player/search"
    /\ \E k \in DOMAIN generation.paths : generation.paths[k].path = "/module/search"
    /\ Len(generation.first.result) = 1
    /\ generation.first.result[1].metadata.name = "searchModule"
    /\ generation.first.result[1].entityType = "module"

\* position of a path in the path table
PathIndex(pathTable, path) == CHOOSE k \in DOMAIN pathTable : pathTable[k].path = path

\* the names of the tools of a run, in order
NamesOf(outcome) == [i \in DOMAIN ToolsOf(outcome) |-> ToolsOf(outcome)[i].metadata.name]

WellFormed(item) ==
    /\ ExtractEntityType(item.path) # UNDEF
    /\ HasPostWithSchema(item)
    /\ ~ResolveSchema(item.post.schema).threw

\* C17: generateSearchTools does not fail over a malformed operation: it returns,
\* and what it returns has the tool of every well-formed operation.
C17_MalformedSkipped ==
    Generated
        => /\ ~generation.first.threw
           /\ \A k \in DOMAIN generation.paths :
                WellFormed(generation.paths[k])
                    => HasToolFor(generation.first, generation.paths[k].path)

\* C18: every tool generateSearchTools returns has inputSchema.type 'object'.
C18_TopLevelObject ==
    Generated
        => \A i \in DOMAIN ToolsOf(generation.first) :
                ToolsOf(generation.first)[i].inputSchema.type = "object"

\* the function has been called
Called == invocation # Idle /\ invocation.outcome # NotCalled

\* the names of the template's placeholders
PlaceholderNames(template) ==
    {template[i].text : i \in {j \in DOMAIN template : template[j].placeholder}}

\* the fields of the input that are not placeholders of the template
Remaining(template, input) ==
    [k \in DOMAIN Spread(input) \ PlaceholderNames(template) |-> Spread(input)[k]]

C20_QueryOrBody ==
    (Called /\ invocation.outcome.request # NoRequest)
        => LET request == invocation.outcome.request
               remaining == Remaining(invocation.template, invocation.input)
               some == DOMAIN remaining # {}
               query == invocation.method \in {"get", "GET", "delete", "DELETE"}
           IN  /\ request.hasParams <=> (query /\ some)
               /\ request.hasData <=> (~query /\ some)
               /\ ~(request.hasParams /\ request.hasData)
               /\ request.hasParams => request.params = remaining
               /\ request.hasData => request.data = remaining
               /\ IF invocation.http.ok
                  THEN /\ ~invocation.outcome.threw
                       /\ invocation.outcome.response = invocation.http.body
                  ELSE /\ invocation.outcome.threw
                       /\ invocation.outcome.error = invocation.http.error

\* C20 happens: a GET with a placeholder and one more field sent that field as a
\* query parameter, and the remote error came back as thrown
C20_Witness ==
    /\ Called
    /\ invocation.method = "GET"
    /\ PlaceholderNames(invocation.template) = {"id"}
    /\ invocation.outcome.request # NoRequest
    /\ invocation.outcome.request.hasParams
    /\ DOMAIN invocation.outcome.request.params = {"filters"}
    /\ invocation.outcome.threw
    /\ invocation.outcome.error.response = "errorsList"

-----------------------------------------------------------------------------
(* Schema resolution *)

Resolved == resolution # Idle /\ resolution.first # NotResolved

RECURSIVE InSequence(_, _)
RECURSIVE FollowedPointers(_)
RECURSIVE AllPointers(_)

\* Op applied to every schema of a sequence, the resulting sets joined
InSequence(Op(_), schemas) ==
    IF schemas = <<>> THEN {} ELSE Op(Head(schemas)) \cup InSequence(Op, Tail(schemas))

\* the pointers of the $ref nodes a traversal of the schema through properties,
\* items, composition branches and additionalProperties comes to
AllPointers(schema) ==
    (IF schema.ref # UNDEF THEN {schema.ref} ELSE {})
    \cup UNION {InSequence(AllPointers, schema.nested[k]) : k \in DOMAIN schema.nested}

\* the pointers a schema refers to, not counting what lies beside a $ref
FollowedPointers(schema) ==
    IF schema.ref # UNDEF
    THEN {schema.ref}
    ELSE UNION {InSequence(FollowedPointers, schema.nested[k]) : k \in DOMAIN schema.nested}

\* the pointers the component a pointer names refers to
PointsTo(pointer) ==
    IF pointer \in DOMAIN resolution.components
    THEN AllPointers(resolution.components[pointer])
    ELSE {}

Step(pointers) == pointers \cup UNION {PointsTo(p) : p \in pointers}

\* every pointer reachable from a set of pointers (the documents have two components)
Closure(pointers) == Step(Step(Step(pointers)))

\* the pointer lies on a self-referential or mutually referential chain
OnCycle(pointer) == pointer \in Closure(PointsTo(pointer))

ReachablePointers == Closure(AllPointers(resolution.root))

\* every pointer of the document is local and names a component
PointersValid ==
    \A p \in ReachablePointers : StartsWithHashSlash(p) /\ p \in DOMAIN resolution.components

Cyclic == \E p \in Closure(FollowedPointers(resolution.root)) : OnCycle(p)

Acyclic == \A p \in ReachablePointers : ~OnCycle(p)

Returned1(r) == r # NotResolved /\ ~r.threw /\ ~r.exhausted

RECURSIVE NestedBesidePointer(_)

\* some $ref node of the schema carries properties, items, composition branches
\* or additionalProperties of its own
NestedBesidePointer(schema) ==
    \/ schema.ref # UNDEF /\ DOMAIN schema.nested # {}
    \/ \E k \in DOMAIN schema.nested : \E i \in DOMAIN schema.nested[k] :
           NestedBesidePointer(schema.nested[k][i])

\* C21 as claimed: resolveSchema ends on every schema with a self-referential or
\* mutually referential pointer chain, and the tree it returns has a $ref node.
C21_CyclicLeavesMarker ==
    (Resolved /\ PointersValid /\ Cyclic)
        => /\ ~resolution.first.exhausted
           /\ ~resolution.first.threw
           /\ AllPointers(resolution.first.tree) # {}

\* C21: resolveSchema ends on a schema with a self-referential or mutually
\* referential pointer chain: it returns within the calls a single visit of each
\* pointer needs and does not throw.  Unless a $ref node carries nested schemas
\* of its own, the tree it returns has a {$ref: pointer} node for a pointer on
\* the cycle.
C21_CyclicTerminates ==
    (Resolved /\ PointersValid /\ Cyclic)
        => /\ ~resolution.first.exhausted
           /\ ~resolution.first.threw
           /\ ~NestedBesidePointer(resolution.root)
                => \E p \in AllPointers(resolution.first.tree) : OnCycle(p)

C21_Witness ==
    /\ Resolved
    /\ resolution.components = MutualComponents
    /\ resolution.root = ArrayOf(Ref(PointerA))
    /\ resolution.first.tree =
         ArrayOf(ObjectOf(<<ArrayOf(Ref(PointerA))>>))

\* C22: a schema whose pointers are all valid and acyclic resolves to a tree
\* without any $ref node.
C22_NoPointerLeft ==
    (Resolved /\ PointersValid /\ Acyclic)
        => /\ Returned1(resolution.first)
           /\ AllPointers(resolution.first.tree) = {}

\* C23: on a schema with only acyclic local pointers, resolving the result of a
\* resolution gives the same tree again.
C23_Idempotent ==
    (Resolved /\ PointersValid /\ Acyclic /\ resolution.second # NotResolved)
        => /\ Returned1(resolution.second)
           /\ resolution.second.tree = resolution.first.tree

\* a $ref node with keys beside the $ref
HasSiblings(schema) ==
    schema.ref # UNDEF /\ (DOMAIN schema.scalars # {} \/ DOMAIN schema.nested # {})

\* C24: a $ref node with sibling keys resolves to the keys of the resolved
\* target and the sibling keys together, each sibling key with the value written
\* beside the $ref; the result has a $ref key only when the pointer had been
\* visited before and was returned as a marker.  This holds for the top-level
\* call and for a nested call that finds any set of pointers visited.
C24_SiblingOverride ==
    (Resolved /\ HasSiblings(resolution.root))
        => \A visited \in SUBSET Pointers :
             LET r == ResolveSchemaTree(resolution.root, visited, resolution.components, MaxCalls)
                 target == ResolveRefTree(resolution.root.ref, visited, resolution.components, MaxCalls)
             IN  /\ (visited = {}) => r = resolution.first
                 /\ r.threw = target.threw
                 /\ ~r.threw
                      => /\ DOMAIN r.tree.scalars
                              = DOMAIN target.tree.scalars \cup DOMAIN resolution.root.scalars
                         /\ \A k \in DOMAIN r.tree.scalars :
                              r.tree.scalars[k] = IF k \in DOMAIN resolution.root.scalars
                                                  THEN resolution.root.scalars[k]
                                                  ELSE target.tree.scalars[k]
                         /\ DOMAIN r.tree.nested
                              = DOMAIN target.tree.nested \cup DOMAIN resolution.root.nested
                         /\ \A k \in DOMAIN r.tree.nested :
                              r.tree.nested[k] = IF k \in DOMAIN resolution.root.nested
                                                 THEN resolution.root.nested[k]
                                                 ELSE target.tree.nested[k]
                         /\ r.tree.ref # UNDEF <=> resolution.root.ref \in visited

\* the description written beside the pointer replaces the component's own
C24_Witness ==
    /\ Resolved
    /\ resolution.components = AcyclicComponents
    /\ resolution.root = SchemaNode(PointerA, [description |-> "beside the pointer"], NoKeys)
    /\ resolution.first.tree
         = SchemaNode(UNDEF, [type |-> "object", description |-> "beside the pointer"], NoKeys)

RECURSIVE Unresolvable(_)

\* the schema has, somewhere under properties, items, composition branches or
\* additionalProperties, a pointer that is not local or names no component
Unresolvable(schema) ==
    \/ /\ schema.ref # UNDEF
       /\ ~StartsWithHashSlash(schema.ref) \/ schema.ref \notin DOMAIN resolution.components
    \/ \E k \in DOMAIN schema.nested : \E i \in DOMAIN schema.nested[k] :
           Unresolvable(schema.nested[k][i])

\* C25: resolving a schema that has a non-local or dangling pointer anywhere
\* under properties, items, composition branches or additionalProperties throws.
C25_FailsLoudly ==
    (Resolved /\ Unresolvable(resolution.root)) => resolution.first.threw

Converted == resolution # Idle /\ resolution.converted # NotResolved

IncludesNull(type) == \E t \in {"string", "string,integer", "object", "array"} : type = WithNull(t)

RECURSIVE ConvertedNode(_, _)

\* what the claim says of a schema and its conversion, node by node
ConvertedNode(schema, output) ==
    /\ DOMAIN output.scalars \cap OpenAPIFields = {}
    /\ ("nullable" \in DOMAIN schema.scalars /\ schema.scalars.nullable = "true")
         => "type" \in DOMAIN output.scalars /\ IncludesNull(output.scalars.type)
    /\ DOMAIN output.nested = DOMAIN schema.nested
    /\ \A k \in DOMAIN schema.nested :
         /\ Len(output.nested[k]) = Len(schema.nested[k])
         /\ \A i \in DOMAIN schema.nested[k] :
              ConvertedNode(schema.nested[k][i], output.nested[k][i])

\* C26: in what toMCPSchema returns, every node that was flagged nullable has a
\* type that includes null and no node has an annotation key of the API
\* description, at the top and under properties, items and composition
\* branches; the schema passed is as it was.
C26_NullableToUnion ==
    Converted
        => /\ ConvertedNode(resolution.input, resolution.converted.output)
           /\ resolution.converted.argument = resolution.input

-----------------------------------------------------------------------------
(* Operation ids *)

Named == naming # Idle /\ naming.first # NotNamed

\* the characters of a string that are not dots, in order
Letters(s) == SelectSeq(s, LAMBDA c : c # Dot)

\* the position in s of its k-th character that is not a dot
PositionOf(s, k) ==
    CHOOSE i \in DOMAIN s : s[i] # Dot /\ Len(Letters(SubSeq(s, 1, i))) = k

\* the name the claim describes: as the function's, with a "Controller" at the
\* end of the first segment taken away
ClaimedName(operationId) ==
    IF operationId = <<>> THEN <<>>
    ELSE LET parts == Split(operationId)
         IN  AppendParts(LowerFirst(StripController(parts[1])), parts, 2)

\* C27 as claimed: the name is built from the segments with the first segment's
\* trailing "Controller" stripped.
C27_ControllerStripped ==
    Named => naming.first = ClaimedName(naming.id)

\* C27: the name has the characters of the operation id without the dots, in
\* order: the first character in lower case, each character that follows a dot
\* in upper case, every other character as written, a "Controller" included;
\* a second call with the same id gives the same name.
C27_CamelCase ==
    Named
        => /\ Len(naming.first) = Len(Letters(naming.id))
           /\ \A k \in DOMAIN naming.first :
                LET i == PositionOf(naming.id, k)
                    c == naming.id[i]
                IN  naming.first[k] = IF i = 1 THEN CharToLowerCase(c)
                                      ELSE IF naming.id[i - 1] = Dot THEN CharToUpperCase(c)
                                      ELSE c
           /\ naming.second # NotNamed => naming.second = naming.first

\* "ModuleController.search" becomes "moduleControllerSearch"
C27_Witness ==
    /\ Named
    /\ naming.id = ModuleWord \o ControllerSuffix \o <<Dot>> \o <<"s", "e", "a", "r", "c", "h">>
    /\ naming.first = <<"m", "o", "d", "u", "l", "e">> \o ControllerSuffix
                        \o <<"S", "e", "a", "r", "c", "h">>
    /\ naming.second # NotNamed
    /\ naming.second = naming.first

-----------------------------------------------------------------------------
(* Order of the checks of a tools/call *)

\* the tools/call on the wire came without a session id the store holds
WithoutValidSession ==
    ToolCall /\ (~Truthy(exchange.req.sessionId) \/ exchange.req.sessionId \notin DOMAIN sessions)

\* C28: a tools/call without a session id is answered -32602 'Session ID
\* required', one with an id the store does not hold -32602 'Invalid or expired
\* session', whatever tool it names; only then is the tool looked up.  Without a
\* valid session the response is the one every other params would have got, so
\* it does not tell a registered tool from an unregistered one.
C28_SessionBeforeTool ==
    WithoutValidSession
        => /\ exchange.response =
                ErrorResponse(InvalidParams,
                              IF ~Truthy(exchange.req.sessionId)
                              THEN <<"Session ID required for tool execution">>
                              ELSE <<"Invalid or expired session">>,
                              FALSE, <<>>, exchange.req.id)
           /\ \A params \in ParamsSet :
                {h.response : h \in HandleToolCall(params, exchange.req.sessionId, exchange.req.id)}
                    = {exchange.response}

\* with tools registered, a call that names none of them under a session id the
\* store does not hold was answered -32602
C28_Witness ==
    /\ WithoutValidSession
    /\ exchange.req.sessionId = "stale-session"
    /\ Len(tools) > 0
    /\ ~RegistryHas(tools, RequestedName)
    /\ RequestedName = "unknownTool"
    /\ IsError(InvalidParams)

-----------------------------------------------------------------------------
(* The session store of the listening server *)

\* the step answered an initialize that created a session
SessionIssued ==
    /\ ~Answering /\ Answering'
    /\ exchange'.dispatched /\ exchange'.req.method = "initialize"
    /\ exchange'.header # UNDEF

\* C29: while the server runs, under POST /mcp requests of every kind and SSE
\* connections that open and close, every session id sent to a client is in the
\* session store; no step removes a session or replaces its data; and an
\* initialize that creates a session gives it an id that no session had and no
\* client was sent before.
C29_SessionsOnlyGrow ==
    /\ [](issued \subseteq DOMAIN sessions)
    /\ [][/\ \A id \in DOMAIN sessions : id \in DOMAIN sessions' /\ sessions'[id] = sessions[id]
          /\ SessionIssued
               => /\ exchange'.header \notin DOMAIN sessions
                  /\ exchange'.header \notin issued
                  /\ DOMAIN sessions' = DOMAIN sessions \cup {exchange'.header}]_vars

\* two sessions were issued, an event stream of the second is open, and both
\* ids are in the store
C29_Witness ==
    /\ issued = {RandomUUID(1), RandomUUID(2)}
    /\ DOMAIN sessions = issued
    /\ streams # Idle
    /\ streams.open = <<RandomUUID(2)>>
    /\ streams.status = StatusOk
    /\ uuids = 2

-----------------------------------------------------------------------------
(* getClient *)

\* C30: a handle getClient has returned had, when it was returned, completed
\* login and the selection of the configured domain.
C30_AuthenticatedHandle ==
    login # Idle
        => \A c \in Callers :
             login.callers[c].pc = "returned"
                => /\ login.callers[c].handed.loggedIn
                   /\ login.callers[c].handed.domain = "configured"

=============================================================================
